---- MODULE Spec2Model ----
(***************************************************************************)
(* A model of tmxparse (Gwitr/tmxparse): the Tile Index (TileCollection),  *)
(* the grid store (LayerData), the Property Bag (Properties) and the       *)
(* recursive document build of BaseLoader.load / Data._load.               *)
(*                                                                         *)
(* Python values are modelled as follows.  None is the record NoneV; an    *)
(* exception is a record [kind |-> "IndexError"] etc.; a Python list is a  *)
(* sequence, indexed from 0 through PyIndex, which wraps negative indices  *)
(* the way list.__getitem__ does.                                          *)
(***************************************************************************)
EXTENDS Integers, Sequences, FiniteSets, TLC

VARIABLES
    \* ---- Tile Index (TileCollection) ----
    map_tilesets,   \* Map.tilesets: the tilesets in declaration order
    tc,             \* the TileCollection: [built, tilesets]
    tc_gid,         \* the gid of the last tiles[gid] lookup (-1: none yet)
    tc_result,      \* what that lookup returned or raised
    \* ---- Grid data (LayerData) ----
    grid,           \* the LayerData object: [built, data, width, height]
    grid_idx,       \* the key of the last data[key] read
    grid_result,    \* what that read returned or raised
    \* ---- Property Bag (Properties) ----
    bag,            \* the Properties object: [items, frozen]
    bag_op,         \* the last operation invoked on it
    bag_result,     \* what that operation returned or raised
    bag_before,     \* the bag as it was when that operation was invoked
    \* ---- Document build (BaseLoader.load, Data._load) ----
    files,          \* the file system: path -> root element of the file
    tag_parsers,    \* TAG_PARSERS of the loader class in use: tag -> class
    object_types,   \* OBJECT_TYPES of each specializable base: discriminant -> class
    declared,       \* the subclasses defined so far besides those of tmx.py
    phase,          \* "idle", "building", "post_load", "returned" or "failed"
    stack,          \* the _load calls in progress, innermost last
    entries,        \* the Data objects created so far; an object's id is its index
    loaded_memo,    \* BaseLoader.load's loaded_memo: ids in the order appended
    memo_pos,       \* how many objects of loaded_memo have had post_load called
    result,         \* what load returned (an id) or raised
    load_path,      \* the path load was called with
    strict,         \* _STRICT of the loader class in use
    loads,          \* how many load calls have been made
    previous,       \* the outcome of the load call before the current one
    \* ---- Tile objects (Tile) ----
    tile_obj,       \* a Tile: [made, attrs], attrs its instance attributes
    tile_op,        \* the last operation invoked on it
    tile_result,    \* what that operation returned or raised
    tile_marked,    \* whether the frozen marker has been set on it so far
    \* ---- Field extraction (dfield) ----
    fld,            \* the dfield being loaded: [owner, d, union, json_src]
    fld_raw,        \* the raw node's value for it: [present, text]
    fld_enc,        \* the load code that ran: "", "xml", "json", "base_xml", "base_json"
    fld_result,     \* the value the field was set to, or what was raised
    \* ---- JSON polymorphic build (dfield.load_json_element) ----
    poly_match,     \* JSON_MATCH of each tagged subclass: the sources it accepts
    poly_order,     \* the order in which collect_subclasses() yields them
    poly_src,       \* the JSON object being built
    poly_result,    \* the class chosen for it, or what was raised
    \* ---- Loader registries (BaseLoader.TAG_PARSERS) ----
    registries,     \* the TAG_PARSERS dicts made so far: tag -> class each
    loaders,        \* the loader classes: name -> [base, TAG_PARSERS (a dict)]
    loader_op       \* the last class statement or register call

tileVars == <<map_tilesets, tc, tc_gid, tc_result>>
gridVars == <<grid, grid_idx, grid_result>>
bagVars  == <<bag, bag_op, bag_result, bag_before>>
loadVars == <<files, tag_parsers, object_types, declared, phase, stack, entries, loaded_memo,
              memo_pos, result, load_path, strict, loads, previous>>
tileObjVars == <<tile_obj, tile_op, tile_result, tile_marked>>
fieldVars == <<fld, fld_raw, fld_enc, fld_result>>
polyVars == <<poly_match, poly_order, poly_src, poly_result>>
registryVars == <<registries, loaders, loader_op>>
vars     == <<tileVars, gridVars, bagVars, loadVars, tileObjVars, fieldVars, polyVars,
              registryVars>>

-----------------------------------------------------------------------------
(* Bounds of the model *)

MaxTilesets  == 2   \* tilesets declared in a Map
MaxFirstGid  == 2   \* firstgid ranges over 0..MaxFirstGid
MaxTileCount == 2   \* tilecount ranges over 0..MaxTileCount
MaxGid       == 4   \* looked-up gids range over 0..MaxGid
MaxLoads     == 2   \* load calls made on one loader
\* _load calls the interpreter lets nest (sys.getrecursionlimit(), counted
\* in _load calls and scaled down); the deepest document nests 7
RecursionLimit == 8

-----------------------------------------------------------------------------
(* Python values *)

NoneV == [kind |-> "None"]

Raise(exc) == [kind |-> exc]

\* An exception together with what its message says: the key of a
\* KeyError, the words and names of a formatted message
RaiseWith(exc, args) == [kind |-> exc, args |-> args]

IsError(r) == r.kind \in {"IndexError", "TypeError", "ValueError", "KeyError",
                          "AttributeError", "NotImplementedError", "FileNotFoundError"}

\* list.__getitem__(i) on a Python list held as a sequence
PyIndex(seq, i) ==
    IF i >= 0 /\ i < Len(seq) THEN [kind |-> "ok", v |-> seq[i + 1]]
    ELSE IF i < 0 /\ i >= -Len(seq) THEN [kind |-> "ok", v |-> seq[Len(seq) + i + 1]]
    ELSE Raise("IndexError")

-----------------------------------------------------------------------------
(* Tile Index: src/tmx.py TileCollection, Tileset.__getitem__, Tile *)

\* The fields of a Tileset the Tile Index reads; tiledata holds the local
\* ids of the <tile> children the tileset was loaded with.
TilesetObjects ==
    [firstgid : 0..MaxFirstGid, tilecount : 0..MaxTileCount, tiledata : {{}, {0}}]

\* The lists a Map's tilesets field can hold, in declaration order; id is
\* the object's identity, its position in that order
TilesetLists ==
    { [i \in DOMAIN s |-> [id |-> i, firstgid |-> s[i].firstgid,
                          tilecount |-> s[i].tilecount, tiledata |-> s[i].tiledata]] :
        s \in UNION { [1..n -> TilesetObjects] : n \in 0..MaxTilesets } }

\* Tile.__init__(tileset, id_, properties) with id_ given: the alias
\* `tileset` stores into `parent`; `loaded` tells a tile taken from
\* tiledata from one made on the fly.
Tile_init(tileset, id_, loaded) ==
    [kind |-> "Tile", tileset |-> tileset, id |-> id_, loaded |-> loaded]

\* Tile.gid
Tile_gid(tile) ==
    IF tile.tileset = NoneV THEN 0
    ELSE tile.tileset.firstgid + tile.id

\* A tileset that tests a local id against its tilecount only.
Tileset_getitem_unchecked_below(self, tileid) ==
    IF tileid >= self.tilecount THEN Raise("IndexError")
    ELSE IF tileid \in self.tiledata THEN Tile_init(self, tileid, TRUE)
    ELSE Tile_init(self, tileid, FALSE)

\* Tileset.__getitem__(tileid)
Tileset_getitem(self, tileid) ==
    IF tileid < 0 \/ tileid >= self.tilecount THEN Raise("IndexError")
    ELSE IF tileid \in self.tiledata THEN Tile_init(self, tileid, TRUE)
    ELSE Tile_init(self, tileid, FALSE)

\* sorted(tilesets, key=firstgid): Python's sort is stable, so tilesets
\* with equal firstgid keep their declaration order.
RECURSIVE InsertSorted(_, _)
InsertSorted(sorted, t) ==
    IF sorted = <<>> THEN <<t>>
    ELSE IF sorted[Len(sorted)].firstgid <= t.firstgid THEN Append(sorted, t)
    ELSE Append(InsertSorted(SubSeq(sorted, 1, Len(sorted) - 1), t), sorted[Len(sorted)])

RECURSIVE SortedByFirstgid(_)
SortedByFirstgid(tilesets) ==
    IF tilesets = <<>> THEN <<>>
    ELSE InsertSorted(SortedByFirstgid(SubSeq(tilesets, 1, Len(tilesets) - 1)),
                      tilesets[Len(tilesets)])

\* TileCollection.__init__
TileCollection_init(tilesets) ==
    [built |-> TRUE, tilesets |-> SortedByFirstgid(tilesets)]

\* bisect.bisect_left(a, x, key=firstgid): the loop with lo = 0, hi = len(a)
RECURSIVE bisect_loop(_, _, _, _)
bisect_loop(a, x, lo, hi) ==
    IF lo < hi
    THEN LET mid == (lo + hi) \div 2
         IN  IF a[mid + 1].firstgid < x THEN bisect_loop(a, x, mid + 1, hi)
             ELSE bisect_loop(a, x, lo, mid)
    ELSE lo

bisect_left(a, x) == bisect_loop(a, x, 0, Len(a))

\* A lookup with the reserved gid 0 not special-cased.
TileCollection_getitem_nosentinel(self, gid) ==
    LET idx0 == bisect_left(self.tilesets, gid)
        idx  == IF Len(self.tilesets) = idx0 \/ self.tilesets[idx0 + 1].firstgid # gid
                THEN idx0 - 1 ELSE idx0
        got  == PyIndex(self.tilesets, idx)
    IN  IF IsError(got) THEN got
        ELSE Tileset_getitem(got.v, gid - got.v.firstgid)

\* TileCollection.__getitem__(gid)
TileCollection_getitem(self, gid) ==
    IF gid = 0 THEN Tile_init(NoneV, 0, FALSE)
    ELSE LET idx0 == bisect_left(self.tilesets, gid)
             idx  == IF Len(self.tilesets) = idx0
                        \/ self.tilesets[idx0 + 1].firstgid # gid
                     THEN idx0 - 1 ELSE idx0
             got  == PyIndex(self.tilesets, idx)
         IN  IF IsError(got) THEN got
             ELSE Tileset_getitem(got.v, gid - got.v.firstgid)


-----------------------------------------------------------------------------
(* The components at rest: a specification that exercises one component   *)
(* holds the others in these states.                                       *)

TileIdle ==
    /\ map_tilesets = <<>>
    /\ tc = [built |-> FALSE, tilesets |-> <<>>]
    /\ tc_gid = -1
    /\ tc_result = NoneV

-----------------------------------------------------------------------------
(* SpecTiles: a Map's tilesets, the Tile Index built over them, lookups *)

TileInit ==
    /\ map_tilesets \in TilesetLists
    /\ tc = [built |-> FALSE, tilesets |-> <<>>]
    /\ tc_gid = -1
    /\ tc_result = NoneV

\* Map.tiles, the computed field: TileCollection(loader.TAG_PARSERS["tile"], obj.tilesets)
BuildTiles ==
    /\ ~tc.built
    /\ tc' = TileCollection_init(map_tilesets)
    /\ UNCHANGED <<map_tilesets, tc_gid, tc_result>>
    /\ UNCHANGED <<gridVars, bagVars, loadVars, tileObjVars, fieldVars, polyVars, registryVars>>

\* map.tiles[gid]
LookupTile ==
    /\ tc.built
    /\ \E gid \in 0..MaxGid :
        /\ tc_gid' = gid
        /\ tc_result' = TileCollection_getitem(tc, gid)
    /\ UNCHANGED <<map_tilesets, tc>>
    /\ UNCHANGED <<gridVars, bagVars, loadVars, tileObjVars, fieldVars, polyVars, registryVars>>

TileNext == BuildTiles \/ LookupTile

-----------------------------------------------------------------------------
(* Claims about the Tile Index *)

\* The gid range [firstgid, firstgid + tilecount) a tileset declares
GidRange(t) == { g \in 0..(MaxGid + MaxFirstGid + MaxTileCount + 2) :
                    t.firstgid <= g /\ g < t.firstgid + t.tilecount }

NonOverlapping(tilesets) ==
    \A i, j \in DOMAIN tilesets :
        i # j => GidRange(tilesets[i]) \cap GidRange(tilesets[j]) = {}

\* C1: whatever the tilesets of the Map (none, or one whose firstgid is 0),
\* tiles[0] returns the sentinel no-tile value: a tile with local id 0, no
\* owning tileset and gid 0; it never raises.
C1_SentinelAtZero ==
    tc_gid = 0 =>
        /\ tc_result.kind = "Tile"
        /\ tc_result.id = 0
        /\ tc_result.tileset = NoneV
        /\ Tile_gid(tc_result) = 0

\* C1's case: tiles[0] was looked up in a Map that has a non-empty tileset
\* whose firstgid is 0, so gid 0 also lies in a declared range.
C1_Witness ==
    /\ tc_gid = 0
    /\ tc_result.kind = "Tile"
    /\ \E i \in DOMAIN tc.tilesets :
        tc.tilesets[i].firstgid = 0 /\ tc.tilesets[i].tilecount > 0

\* C2 as stated: for tilesets with pairwise non-overlapping ranges, in any
\* declaration order, and a gid g >= 1 inside the declared range of a
\* tileset T, tiles[g] returns a tile with local id g - T.firstgid owned by T.
C2_InRangeResolves ==
    (tc_gid >= 1 /\ NonOverlapping(map_tilesets)) =>
        \A i \in DOMAIN map_tilesets :
            tc_gid \in GidRange(map_tilesets[i]) =>
                /\ tc_result.kind = "Tile"
                /\ tc_result.id = tc_gid - map_tilesets[i].firstgid
                /\ tc_result.tileset = map_tilesets[i]

\* The positions, in the firstgid-sorted order, of the tilesets whose
\* firstgid is at most g
AtMost(g) == { i \in DOMAIN tc.tilesets : tc.tilesets[i].firstgid <= g }

\* The last of them
Rightmost(g) == tc.tilesets[CHOOSE i \in AtMost(g) : \A j \in AtMost(g) : j <= i]

\* C18 as stated: for a gid g >= 1 and any tilesets, tilesets that share a
\* firstgid included, tiles[g] is what the rightmost tileset of the sorted
\* order with firstgid <= g gives for the local id g - firstgid, whether g
\* is greater than that firstgid or equal to it.
C18_RightmostSelected ==
    (tc_gid >= 1 /\ AtMost(tc_gid) # {}) =>
        tc_result = Tileset_getitem(Rightmost(tc_gid), tc_gid - Rightmost(tc_gid).firstgid)

\* C19: for a gid g >= 1 that lies in the declared range of no tileset (past
\* the end of a range, below every firstgid, or with no tilesets at all),
\* tiles[g] raises IndexError; it returns no tile.
C19_NoTileIsIndexError ==
    (tc_gid >= 1 /\ \A i \in DOMAIN map_tilesets : tc_gid \notin GidRange(map_tilesets[i])) =>
        tc_result = Raise("IndexError")

\* C19's case: a gid below the firstgid of each of two non-empty tilesets,
\* where the index computed is -1 and the last tileset is the one asked
C19_Witness ==
    /\ tc_gid >= 1
    /\ tc_result = Raise("IndexError")
    /\ Len(tc.tilesets) = 2
    /\ \A i \in DOMAIN tc.tilesets :
          tc.tilesets[i].firstgid > tc_gid /\ tc.tilesets[i].tilecount > 0

-----------------------------------------------------------------------------
(* Grid data: src/tmx.py LayerData *)

MaxWidth  == 3   \* grid widths range over 1..MaxWidth
MaxHeight == 2   \* grid heights range over 1..MaxHeight
MaxBase   == 2   \* a grid payload is base, base+1, ...: base in 0..MaxBase

IntV(n) == [kind |-> "int", v |-> n]

\* The payload of a grid of n cells: consecutive tile ids from base, so
\* that no two cells hold the same id (base = 1, n = 6 is [1,2,3,4,5,6]).
GridPayload(base, n) == [i \in 1..n |-> base + i - 1]

\* LayerData.__init__(data, width, height)
LayerData_init(data, width, height) ==
    [built |-> TRUE, data |-> data, width |-> width, height |-> height]

\* An indexing that takes the key as (row, column).
LayerData_getitem_transposed(self, idx) ==
    IF idx.kind = "tuple"
    THEN IF Len(idx.v) # 2 THEN Raise("TypeError")
         ELSE IF self.width = NoneV THEN Raise("TypeError")
         ELSE PyIndex(self.data, idx.v[1] * self.width.v + idx.v[2])
    ELSE PyIndex(self.data, idx.v)

\* LayerData.__getitem__(idx): idx is a tuple or an int; with width None
\* the product idx[1] * self.width is a TypeError.
LayerData_getitem(self, idx) ==
    IF idx.kind = "tuple"
    THEN IF Len(idx.v) # 2 THEN Raise("TypeError")
         ELSE IF self.width = NoneV THEN Raise("TypeError")
         ELSE PyIndex(self.data, idx.v[2] * self.width.v + idx.v[1])
    ELSE PyIndex(self.data, idx.v)

GridIdle ==
    /\ grid = [built |-> FALSE, data |-> <<>>, width |-> NoneV, height |-> NoneV]
    /\ grid_idx = NoneV
    /\ grid_result = NoneV

GridInit == GridIdle

\* LayerData(data, width, height) with both dimensions given
ConstructGrid ==
    /\ ~grid.built
    /\ \E w \in 1..MaxWidth, h \in 1..MaxHeight, base \in 0..MaxBase :
        grid' = LayerData_init(GridPayload(base, w * h), IntV(w), IntV(h))
    /\ UNCHANGED <<grid_idx, grid_result>>
    /\ UNCHANGED <<tileVars, bagVars, loadVars, tileObjVars, fieldVars, polyVars, registryVars>>

\* LayerData(data): the dimensions default to None
ConstructGridNoDims ==
    /\ ~grid.built
    /\ \E n \in 1..(MaxWidth * MaxHeight), base \in 0..MaxBase :
        grid' = LayerData_init(GridPayload(base, n), NoneV, NoneV)
    /\ UNCHANGED <<grid_idx, grid_result>>
    /\ UNCHANGED <<tileVars, bagVars, loadVars, tileObjVars, fieldVars, polyVars, registryVars>>

\* data[(x, y)]
ReadCell ==
    /\ grid.built
    /\ \E x \in -1..MaxWidth, y \in -1..MaxHeight :
        LET idx == [kind |-> "tuple", v |-> <<x, y>>]
        IN  /\ grid_idx' = idx
            /\ grid_result' = LayerData_getitem(grid, idx)
    /\ UNCHANGED grid
    /\ UNCHANGED <<tileVars, bagVars, loadVars, tileObjVars, fieldVars, polyVars, registryVars>>

\* data[(x, y, z)]: a key that is not a coordinate pair
ReadMalformed ==
    /\ grid.built
    /\ \E x \in 0..1 :
        LET idx == [kind |-> "tuple", v |-> <<x, 0, 0>>]
        IN  /\ grid_idx' = idx
            /\ grid_result' = LayerData_getitem(grid, idx)
    /\ UNCHANGED grid
    /\ UNCHANGED <<tileVars, bagVars, loadVars, tileObjVars, fieldVars, polyVars, registryVars>>

\* data[i]
ReadLinear ==
    /\ grid.built
    /\ \E i \in -1..(MaxWidth * MaxHeight) :
        LET idx == [kind |-> "int", v |-> i]
        IN  /\ grid_idx' = idx
            /\ grid_result' = LayerData_getitem(grid, idx)
    /\ UNCHANGED grid
    /\ UNCHANGED <<tileVars, bagVars, loadVars, tileObjVars, fieldVars, polyVars, registryVars>>

GridNext == ConstructGrid \/ ConstructGridNoDims \/ ReadCell \/ ReadMalformed \/ ReadLinear

-----------------------------------------------------------------------------
(* Claims about the grid *)

\* The last read used a coordinate pair on a grid whose width and height
\* are known and which holds width*height ids.
ReadXY ==
    /\ grid.built
    /\ grid.width # NoneV
    /\ grid.height # NoneV
    /\ grid_idx # NoneV
    /\ grid_idx.kind = "tuple"
    /\ Len(grid_idx.v) = 2
    /\ Len(grid.data) = grid.width.v * grid.height.v

InGrid(x, y) ==
    /\ 0 <= x /\ x < grid.width.v
    /\ 0 <= y /\ y < grid.height.v

\* C3: on a grid with known width and height holding width*height ids, a
\* read of (x, y) with 0 <= x < width and 0 <= y < height returns the
\* element at linear index y*width + x of the flat sequence.
C3_RowMajorRead ==
    (ReadXY /\ InGrid(grid_idx.v[1], grid_idx.v[2])) =>
        /\ grid_result.kind = "ok"
        /\ grid_result.v = grid.data[grid_idx.v[2] * grid.width.v + grid_idx.v[1] + 1]

\* C3's case, the example of the specification: width 3, height 2,
\* data [1,2,3,4,5,6], and the read of (2, 1) returned 6.
C3_Witness ==
    /\ ReadXY
    /\ grid.width.v = 3 /\ grid.height.v = 2
    /\ grid.data = <<1, 2, 3, 4, 5, 6>>
    /\ grid_idx.v = <<2, 1>>
    /\ grid_result.kind = "ok"
    /\ grid_result.v = 6

\* C4 as stated: a read of (x, y) with x outside [0, width) or y outside
\* [0, height) is an IndexOutOfRange error, never the value of another cell.
C4_OutOfRangeIsError ==
    (ReadXY /\ ~InGrid(grid_idx.v[1], grid_idx.v[2])) =>
        grid_result.kind = "IndexError"

-----------------------------------------------------------------------------
(* Property Bag: src/tmx.py Properties, a dict subclass with a frozen flag *)

BagKeys   == {"visible", "speed"}
BagValues == {0, 1}

\* The dicts over BagKeys: the bag's contents and the arguments of
\* update, |= and ==
Dicts == UNION { [K -> BagValues] : K \in SUBSET BagKeys }

Ok(v) == [kind |-> "ok", v |-> v]

Put(d, k, v) == [x \in DOMAIN d \cup {k} |-> IF x = k THEN v ELSE d[x]]
Remove(d, k) == [x \in DOMAIN d \ {k} |-> d[x]]
Merge(d, other) ==
    [x \in DOMAIN d \cup DOMAIN other |-> IF x \in DOMAIN other THEN other[x] ELSE d[x]]

\* What an operation on the bag yields: the bag afterwards, and what the
\* call returned or raised.
Outcome(b, r) == [bag |-> b, result |-> r]

\* Properties.__init__
Properties_init == [items |-> <<>>, frozen |-> FALSE]

\* Properties.__setitem__(key, value)
Properties_setitem(self, key, value) ==
    IF self.frozen THEN Outcome(self, Raise("ValueError"))
    ELSE Outcome([self EXCEPT !.items = Put(@, key, value)], Ok(NoneV))

\* Properties.pop(key, default)
Properties_pop(self, key, default) ==
    IF self.frozen THEN Outcome(self, Raise("ValueError"))
    ELSE Outcome([self EXCEPT !.items = Remove(@, key)],
                 Ok(IF key \in DOMAIN self.items THEN self.items[key] ELSE default))

\* Properties.update(other)
Properties_update(self, other) ==
    IF self.frozen THEN Outcome(self, Raise("ValueError"))
    ELSE Outcome([self EXCEPT !.items = Merge(@, other)], Ok(NoneV))

\* Properties.clear()
Properties_clear(self) ==
    IF self.frozen THEN Outcome(self, Raise("ValueError"))
    ELSE Outcome([self EXCEPT !.items = <<>>], Ok(NoneV))

\* Properties.__hash__
Properties_hash(self) ==
    IF ~self.frozen THEN Outcome(self, Raise("ValueError"))
    ELSE Outcome(self, Ok("hash"))

\* The mutators and the comparison Properties does not define and so takes
\* from dict (class Properties(Data, dict)): none of them reads `frozen`.
\* del bag[key]
dict_delitem(self, key) ==
    IF key \in DOMAIN self.items
    THEN Outcome([self EXCEPT !.items = Remove(@, key)], Ok(NoneV))
    ELSE Outcome(self, Raise("KeyError"))

\* bag.setdefault(key, default): dict.setdefault stores without calling
\* the subclass's __setitem__
dict_setdefault(self, key, default) ==
    IF key \in DOMAIN self.items THEN Outcome(self, Ok(self.items[key]))
    ELSE Outcome([self EXCEPT !.items = Put(@, key, default)], Ok(default))

\* bag |= other: dict.__ior__ merges without calling the subclass's update
dict_ior(self, other) ==
    Outcome([self EXCEPT !.items = Merge(@, other)], Ok(NoneV))

\* bag == other
dict_eq(self, other) == Outcome(self, Ok(self.items = other))

BagIdle ==
    /\ bag = Properties_init
    /\ bag_op = [name |-> "init"]
    /\ bag_result = NoneV
    /\ bag_before = Properties_init

\* The state after Properties()
BagInit == BagIdle

\* Every action records the call in bag_op, the bag it was made on in
\* bag_before, and what it returned or raised in bag_result.
SetItem ==
    \E k \in BagKeys, v \in BagValues :
        LET out == Properties_setitem(bag, k, v)
        IN  /\ bag_op' = [name |-> "setitem", key |-> k]
            /\ bag_before' = bag
            /\ bag' = out.bag
            /\ bag_result' = out.result
            /\ UNCHANGED <<tileVars, gridVars, loadVars, tileObjVars, fieldVars, polyVars, registryVars>>

Pop ==
    \E k \in BagKeys, d \in BagValues :
        LET out == Properties_pop(bag, k, d)
        IN  /\ bag_op' = [name |-> "pop", key |-> k]
            /\ bag_before' = bag
            /\ bag' = out.bag
            /\ bag_result' = out.result
            /\ UNCHANGED <<tileVars, gridVars, loadVars, tileObjVars, fieldVars, polyVars, registryVars>>

Update ==
    \E other \in Dicts :
        LET out == Properties_update(bag, other)
        IN  /\ bag_op' = [name |-> "update", other |-> other]
            /\ bag_before' = bag
            /\ bag' = out.bag
            /\ bag_result' = out.result
            /\ UNCHANGED <<tileVars, gridVars, loadVars, tileObjVars, fieldVars, polyVars, registryVars>>

Clear ==
    LET out == Properties_clear(bag)
    IN  /\ bag_op' = [name |-> "clear"]
        /\ bag_before' = bag
        /\ bag' = out.bag
        /\ bag_result' = out.result
        /\ UNCHANGED <<tileVars, gridVars, loadVars, tileObjVars, fieldVars, polyVars, registryVars>>

Hash ==
    LET out == Properties_hash(bag)
    IN  /\ bag_op' = [name |-> "hash"]
        /\ bag_before' = bag
        /\ bag' = out.bag
        /\ bag_result' = out.result
        /\ UNCHANGED <<tileVars, gridVars, loadVars, tileObjVars, fieldVars, polyVars, registryVars>>

\* del bag[k]
DelItem ==
    \E k \in BagKeys :
        LET out == dict_delitem(bag, k)
        IN  /\ bag_op' = [name |-> "delitem", key |-> k]
            /\ bag_before' = bag
            /\ bag' = out.bag
            /\ bag_result' = out.result
            /\ UNCHANGED <<tileVars, gridVars, loadVars, tileObjVars, fieldVars, polyVars, registryVars>>

SetDefault ==
    \E k \in BagKeys, d \in BagValues :
        LET out == dict_setdefault(bag, k, d)
        IN  /\ bag_op' = [name |-> "setdefault", key |-> k]
            /\ bag_before' = bag
            /\ bag' = out.bag
            /\ bag_result' = out.result
            /\ UNCHANGED <<tileVars, gridVars, loadVars, tileObjVars, fieldVars, polyVars, registryVars>>

\* bag |= other
InPlaceOr ==
    \E other \in Dicts :
        LET out == dict_ior(bag, other)
        IN  /\ bag_op' = [name |-> "ior", other |-> other]
            /\ bag_before' = bag
            /\ bag' = out.bag
            /\ bag_result' = out.result
            /\ UNCHANGED <<tileVars, gridVars, loadVars, tileObjVars, fieldVars, polyVars, registryVars>>

\* bag == other
Eq ==
    \E other \in Dicts :
        LET out == dict_eq(bag, other)
        IN  /\ bag_op' = [name |-> "eq", other |-> other]
            /\ bag_before' = bag
            /\ bag' = out.bag
            /\ bag_result' = out.result
            /\ UNCHANGED <<tileVars, gridVars, loadVars, tileObjVars, fieldVars, polyVars, registryVars>>

\* bag.frozen = v: `frozen` is a plain instance attribute, and assigning it
\* is the only way a bag's flag changes after __init__
AssignFrozen ==
    \E v \in BOOLEAN :
        /\ bag_op' = [name |-> "assign_frozen", value |-> v]
        /\ bag_before' = bag
        /\ bag' = [bag EXCEPT !.frozen = v]
        /\ bag_result' = Ok(NoneV)
        /\ UNCHANGED <<tileVars, gridVars, loadVars, tileObjVars, fieldVars, polyVars, registryVars>>

BagNext ==
    \/ SetItem \/ Pop \/ Update \/ Clear \/ Hash
    \/ DelItem \/ SetDefault \/ InPlaceOr \/ Eq
    \/ AssignFrozen

-----------------------------------------------------------------------------
(* Claims about the Property Bag *)

\* The calls that try to change the contents of a bag
MutationAttempts == {"setitem", "pop", "update", "clear", "delitem", "setdefault", "ior"}

\* C6 as stated: on a frozen bag every mutation attempt (set an item, remove
\* a key, clear, merge/update) fails with an error and leaves the keys and
\* values unchanged, and no operation of the bag makes a frozen bag mutable
\* again.  Any exception counts as the failure, and the plain assignment
\* bag.frozen = False is not counted among the operations.
C6_FrozenBagImmutable ==
    bag_before.frozen =>
        /\ bag_op.name \in MutationAttempts =>
            /\ IsError(bag_result)
            /\ bag.items = bag_before.items
        /\ bag_op.name \in MutationAttempts \cup {"hash", "eq"} => bag.frozen

\* C7 as stated: hashing a bag and comparing it for equality are errors on
\* an unfrozen bag, and both succeed on a frozen one.
C7_HashEqNeedFrozen ==
    bag_op.name \in {"hash", "eq"} =>
        IF bag_before.frozen THEN bag_result.kind = "ok"
        ELSE bag_result.kind = "ValueError"

-----------------------------------------------------------------------------
(* Document build: values, paths, raw elements *)

StrV(s)   == [kind |-> "str", v |-> s]
BoolV(b)  == [kind |-> "bool", v |-> b]
FloatV(n) == [kind |-> "float", v |-> n]
ObjV(id)  == [kind |-> "obj", v |-> id]
ListV(s)  == [kind |-> "list", v |-> s]
PathV(p)  == [kind |-> "path", v |-> p]

\* The decimal numerals the documents use, with their values
Numerals ==
    "0" :> 0 @@ "1" :> 1 @@ "2" :> 2 @@ "3" :> 3 @@ "4" :> 4 @@ "5" :> 5
    @@ "6" :> 6 @@ "7" :> 7 @@ "8" :> 8 @@ "9" :> 9

\* int(text)
py_int(text) ==
    IF text \in DOMAIN Numerals THEN Ok(IntV(Numerals[text])) ELSE Raise("ValueError")

\* float(text)
py_float(text) ==
    IF text \in DOMAIN Numerals THEN Ok(FloatV(Numerals[text])) ELSE Raise("ValueError")

\* coerce(to_type, value): isinstance(to_type, bool) is False for every
\* type, so the result is to_type(value); bool(text) is text != ""
coerce(to_type, value) ==
    CASE to_type = "int"   -> py_int(value)
      [] to_type = "float" -> py_float(value)
      [] to_type = "bool"  -> Ok(BoolV(value # ""))
      [] OTHER             -> Ok(StrV(value))

\* A path is the sequence of its components: maps/level.tmx is
\* <<"maps", "level.tmx">>.  os.path.dirname and os.path.join (of a
\* directory and a relative path) on such sequences:
dirname(path) == SubSeq(path, 1, Len(path) - 1)
join(dir, rel) == dir \o rel

\* An xml.etree.ElementTree.Element.  The text of a <data> element is held
\* as the sequence of its comma-separated cells, the text of a <text>
\* element as the value element.text has, a str or None.
Element(tag, attrib, text, children) ==
    [tag |-> tag, attrib |-> attrib, text |-> text, children |-> children]

\* An overlay in which the remote file's own attributes win.
Overlay_remote_wins(rsrc_attrib, attrib) == Remove(Merge(attrib, rsrc_attrib), "source")

\* for k, v in data_obj.attrib.items(): rsrc.attrib[k] = v
\* del rsrc.attrib["source"]
Overlay(rsrc_attrib, attrib) == Remove(Merge(rsrc_attrib, attrib), "source")

-----------------------------------------------------------------------------
(* Document build: the classes of src/tmx.py and their registries *)

\* Classes a program defines on top of tmx.py, each with its base class
\* and the tiled_class it passes to TypeSpecializable.__init_subclass__
UserClasses == {"SpawnGroup", "BossGroup", "SpawnMap"}

UserBase ==
    "SpawnGroup" :> "ObjectGroup" @@ "BossGroup" :> "SpawnGroup" @@ "SpawnMap" :> "Map"

UserTiledClass ==
    "SpawnGroup" :> "spawn" @@ "BossGroup" :> "boss" @@ "SpawnMap" :> "spawn"

\* The classes of src/pg_compat.py, each a subclass of the class of tmx.py
\* it is named after, declared without tag or tiled_class
PygameBase ==
    "PygameTile" :> "Tile" @@ "PygameMap" :> "Map"
    @@ "PygameObjectGroup" :> "ObjectGroup" @@ "PygameTileLayer" :> "TileLayer"

\* The base class of each class (the Data side of its bases)
BaseOf ==
    "Map" :> "Data" @@ "Tileset" :> "Data" @@ "Grid" :> "Data" @@ "Text" :> "Data"
    @@ "Image" :> "Data" @@ "Tile" :> "Data" @@ "Properties" :> "Data"
    @@ "Property" :> "Data" @@ "LayerBase" :> "Data" @@ "TileLayer" :> "LayerBase"
    @@ "ImageLayer" :> "LayerBase" @@ "ObjectGroup" :> "LayerBase"
    @@ "Object" :> "Data" @@ "LayerData" :> "Data" @@ UserBase @@ PygameBase

\* issubclass(c, d)
RECURSIVE issubclass(_, _)
issubclass(c, d) ==
    IF c = d THEN TRUE
    ELSE IF c \in DOMAIN BaseOf THEN issubclass(BaseOf[c], d)
    ELSE FALSE

\* BaseLoader.TAG_PARSERS after the @BaseLoader.register decorators
TAG_PARSERS ==
    "map" :> "Map" @@ "tileset" :> "Tileset" @@ "grid" :> "Grid" @@ "text" :> "Text"
    @@ "image" :> "Image" @@ "tile" :> "Tile" @@ "properties" :> "Properties"
    @@ "property" :> "Property" @@ "layer" :> "TileLayer"
    @@ "imagelayer" :> "ImageLayer" @@ "objectgroup" :> "ObjectGroup"
    @@ "object" :> "Object" @@ "data" :> "LayerData"

\* PygameLoader.TAG_PARSERS: the copy of BaseLoader's taken when the class
\* was created, after the @PygameLoader.register decorators
PygameParsers ==
    [tag \in DOMAIN TAG_PARSERS |->
        CASE tag = "tile" -> "PygameTile"
          [] tag = "map" -> "PygameMap"
          [] tag = "objectgroup" -> "PygameObjectGroup"
          [] tag = "layer" -> "PygameTileLayer"
          [] OTHER -> TAG_PARSERS[tag]]

\* BaseLoader._STRICT
STRICT == FALSE

\* The classes declared with base=True: each owns an OBJECT_TYPES dict
SpecializableBases == {"Map", "ImageLayer", "ObjectGroup"}

\* cls.OBJECT_BASE: set on a base=True class and inherited below it; None
\* (here "") elsewhere, Object included
OBJECT_BASE(cls) ==
    IF \E b \in SpecializableBases : issubclass(cls, b)
    THEN CHOOSE b \in SpecializableBases : issubclass(cls, b)
    ELSE ""

\* cls.ATTRIB
ATTRIB(cls) == IF issubclass(cls, "Object") THEN "type" ELSE "class"

\* cls.MAYBE_REMOTE
MAYBE_REMOTE(cls) == issubclass(cls, "Map") \/ issubclass(cls, "Tileset")

\* cls.XML_IGNORE, {} where the class has none
XML_IGNORE(cls) == IF issubclass(cls, "Tile") THEN {"objectgroup"} ELSE {}

\* Data.collect_subclasses: the class itself when it has a TAG, else the
\* subclasses below it that have one
collect_subclasses(cls) ==
    IF cls = "LayerBase" THEN {"TileLayer", "ImageLayer", "ObjectGroup"} ELSE {cls}

\* isinstance(obj, base_annotation_type(T).collect_subclasses())
isinstance(cls, T) == \E t \in collect_subclasses(T) : issubclass(cls, t)

\* A specialization that never consults OBJECT_TYPES.
Specialize_base_only(cls, attrib, types) == cls

\* TypeSpecializable._load: the class that ends up constructing the object
Specialize(cls, attrib, types) ==
    IF OBJECT_BASE(cls) # "" /\ cls = OBJECT_BASE(cls)
    THEN IF ATTRIB(cls) \notin DOMAIN attrib THEN cls
         ELSE IF attrib[ATTRIB(cls)] \notin DOMAIN types[cls] THEN cls
         ELSE types[cls][attrib[ATTRIB(cls)]]
    ELSE cls

-----------------------------------------------------------------------------
(* Document build: the field schema (dfield) of each class *)

\* dfield descriptors, by extraction rule
Attr(name, type, src, optional, default) ==
    [name |-> name, rule |-> "attr", type |-> type, src |-> src,
     optional |-> optional, default |-> default]
Child(name, type, optional) ==
    [name |-> name, rule |-> "child", type |-> type, src |-> "",
     optional |-> optional, default |-> NoneV]
ChildList(name, type) ==
    [name |-> name, rule |-> "child_list", type |-> type, src |-> "",
     optional |-> FALSE, default |-> NoneV]
TextField(name) ==
    [name |-> name, rule |-> "text", type |-> "str", src |-> "",
     optional |-> FALSE, default |-> NoneV]
Computed(name) ==
    [name |-> name, rule |-> "loader", type |-> "", src |-> "",
     optional |-> FALSE, default |-> NoneV]
Req(name, type) == Attr(name, type, name, FALSE, NoneV)
Opt(name, type, default) == Attr(name, type, name, TRUE, default)

\* The class whose generated _load_xml an object runs: a class defined
\* without data_base inherits the one of its base
RECURSIVE SchemaOwner(_)
SchemaOwner(cls) ==
    IF cls \in UserClasses THEN SchemaOwner(UserBase[cls])
    ELSE IF cls \in DOMAIN PygameBase THEN PygameBase[cls]
    ELSE cls

\* The dfields of a class in the order _init_subclasses emits them: the
\* ones without a loader in annotation order, then the ones with a loader
Schema(cls) ==
    CASE cls = "Map" ->
           << Attr("type", "str", "class", TRUE, NoneV),
              Req("width", "int"), Req("height", "int"),
              Req("tilewidth", "int"), Req("tileheight", "int"),
              Req("infinite", "bool"),
              Req("nextlayerid", "int"), Req("nextobjectid", "int"),
              ChildList("tilesets", "Tileset"), ChildList("layers", "LayerBase"),
              Computed("imgs"), Computed("tiles") >>
      [] cls = "Tileset" ->
           << Req("tilewidth", "int"), Req("tileheight", "int"),
              Req("tilecount", "int"), Req("columns", "int"), Req("firstgid", "int"),
              Child("img", "Image", FALSE), ChildList("_tiles", "Tile"),
              Computed("tile_cls"), Computed("tiledata") >>
      [] cls = "Grid" -> << Req("width", "int"), Req("height", "int") >>
      [] cls = "Text" ->
           << Req("fontfamily", "str"), Req("pixelsize", "int"), Req("wrap", "bool"),
              TextField("text"), Opt("color", "str", StrV("#ffffff")),
              Computed("font") >>
      [] cls = "Image" ->
           << Req("width", "int"), Req("height", "int"), Opt("source", "str", NoneV),
              Computed("surface") >>
      [] cls = "Tile" ->
           << Req("id", "int"), Child("properties", "Properties", TRUE),
              Computed("frozen") >>
      [] cls = "Property" -> << Req("name", "str"), Opt("type", "str", NoneV) >>
      [] cls = "TileLayer" ->
           << Req("id", "int"), Req("width", "int"), Req("height", "int"),
              Opt("offsetx", "float", FloatV(0)), Opt("offsety", "float", FloatV(0)),
              Child("properties", "Properties", TRUE), Child("data", "LayerData", TRUE) >>
      [] cls = "ImageLayer" ->
           << Req("id", "int"), Attr("type", "str", "class", TRUE, NoneV),
              Opt("offsetx", "float", FloatV(0)), Opt("offsety", "float", FloatV(0)),
              Child("img", "Image", FALSE) >>
      [] cls = "ObjectGroup" ->
           << Req("id", "int"), Child("properties", "Properties", TRUE),
              ChildList("objects", "Object") >>
      [] cls = "Object" ->
           << Req("id", "int"), Opt("type", "str", NoneV), Opt("name", "str", NoneV),
              Req("x", "float"), Req("y", "float"),
              Req("width", "float"), Req("height", "float"),
              Opt("gid", "int", NoneV), Child("text", "Text", TRUE) >>
      [] OTHER -> << >>

\* What a step of the build yields: the objects afterwards and the
\* exception raised, NoneV when none
Step(h, err) == [h |-> h, err |-> err]

SetField(h, o, name, value) == [h EXCEPT ![o].fields = Put(@, name, value)]

\* [i for i in self.data_children if isinstance(i, types)]
Matching(h, o, T) ==
    LET Test(c) == isinstance(h[c].cls, T)
    IN  SelectSeq(h[o].data_children, Test)

\* {i.id: i for i in obj._tiles}: a later tile with the same id wins
RECURSIVE TileDict(_, _, _)
TileDict(h, tiles, i) ==
    IF i = 0 THEN << >>
    ELSE Put(TileDict(h, tiles, i - 1), h[tiles[i]].fields["id"].v, tiles[i])

\* The Tileset objects as the Tile Index reads them
TilesetView(h, ids) ==
    [k \in 1..Len(ids) |->
        [id |-> ids[k],
         firstgid |-> h[ids[k]].fields["firstgid"].v,
         tilecount |-> h[ids[k]].fields["tilecount"].v,
         tiledata |-> DOMAIN h[ids[k]].fields["tiledata"].v]]

\* The loader= functions of the computed dfields
ComputeField(h, o, owner, name) ==
    LET f == h[o].fields
    IN  CASE owner = "Map" /\ name = "imgs" ->
               LET HasImg(t) == h[t].fields["img"] # NoneV
                   IsImgLayer(l) == issubclass(h[l].cls, "ImageLayer")
                   ts == SelectSeq(f["tilesets"].v, HasImg)
                   ls == SelectSeq(f["layers"].v, IsImgLayer)
               IN  Ok(ListV([k \in 1..Len(ts) |-> h[ts[k]].fields["img"].v]
                            \o [k \in 1..Len(ls) |-> h[ls[k]].fields["img"].v]))
          [] owner = "Map" /\ name = "tiles" ->
               Ok([kind |-> "TileCollection",
                   v |-> TileCollection_init(TilesetView(h, f["tilesets"].v))])
          [] owner = "Tileset" /\ name = "tile_cls" ->
               Ok([kind |-> "cls", v |-> tag_parsers["tile"]])
          [] owner = "Tileset" /\ name = "tiledata" ->
               Ok([kind |-> "dict", v |-> TileDict(h, f["_tiles"].v, Len(f["_tiles"].v))])
          [] owner = "Image" /\ name = "surface" ->
               IF f["source"] = NoneV THEN Raise("TypeError") ELSE Ok(NoneV)
          [] OTHER -> Ok(NoneV)

\* One dfield, as generate_xml_load_code emits it
LoadField(h, o, element, owner, d) ==
    CASE d.rule = "loader" ->
           LET r == ComputeField(h, o, owner, d.name)
           IN  IF IsError(r) THEN Step(h, r) ELSE Step(SetField(h, o, d.name, r.v), NoneV)
      [] d.rule = "text" -> Step(SetField(h, o, d.name, element.text), NoneV)
      [] d.rule = "child" ->
           LET arr == Matching(h, o, d.type)
           IN  IF arr # << >> THEN Step(SetField(h, o, d.name, ObjV(arr[1])), NoneV)
               ELSE IF d.optional THEN Step(SetField(h, o, d.name, d.default), NoneV)
               ELSE Step(h, RaiseWith("ValueError",
                                      <<"required attribute", d.name, "not found">>))
      [] d.rule = "child_list" ->
           Step(SetField(h, o, d.name, ListV(Matching(h, o, d.type))), NoneV)
      [] OTHER ->
           IF d.src \in DOMAIN element.attrib
           THEN LET r == coerce(d.type, element.attrib[d.src])
                IN  IF IsError(r) THEN Step(h, r)
                    ELSE Step(SetField(h, o, d.name, r.v), NoneV)
           ELSE IF d.optional THEN Step(SetField(h, o, d.name, d.default), NoneV)
           ELSE Step(h, RaiseWith("KeyError", <<d.src>>))

RECURSIVE LoadFields(_, _, _, _, _, _)
LoadFields(h, o, element, owner, fields, i) ==
    IF i > Len(fields) THEN Step(h, NoneV)
    ELSE LET r == LoadField(h, o, element, owner, fields[i])
         IN  IF r.err # NoneV THEN r
             ELSE LoadFields(r.h, o, element, owner, fields, i + 1)

-----------------------------------------------------------------------------
(* Document build: the load_xml hooks of the classes *)

\* Properties.load_xml: for i in self.data_children: self[i.name] = i.value,
\* then del self.data_children
RECURSIVE Properties_load_xml_loop(_, _, _)
Properties_load_xml_loop(h, o, i) ==
    IF i > Len(h[o].data_children) THEN Step(h, NoneV)
    ELSE LET c == h[h[o].data_children[i]]
         IN  IF "name" \notin DOMAIN c.fields \/ "value" \notin DOMAIN c.fields
             THEN Step(h, Raise("AttributeError"))
             ELSE LET key == IF c.fields["name"].kind = "str"
                             THEN c.fields["name"].v ELSE "None"
                      out == Properties_setitem(h[o].bag, key, c.fields["value"])
                  IN  IF IsError(out.result) THEN Step(h, out.result)
                      ELSE Properties_load_xml_loop([h EXCEPT ![o].bag = out.bag], o, i + 1)

Properties_load_xml(h, o) ==
    LET r == Properties_load_xml_loop(h, o, 1)
    IN  IF r.err # NoneV THEN r
        ELSE Step([r.h EXCEPT ![o].data_children = << >>, ![o].children_deleted = TRUE],
                  NoneV)

\* A Property that takes every type it does not know for string.
Property_load_xml_lenient(h, o, element) ==
    LET t      == h[o].fields["type"]
        ptype  == IF t = NoneV THEN "string" ELSE IF t.v = "" THEN "string" ELSE t.v
    IN  IF "value" \notin DOMAIN element.attrib
        THEN Step(h, RaiseWith("KeyError", <<"value">>))
        ELSE LET raw == element.attrib["value"]
                 r   == CASE ptype = "bool" -> Ok(BoolV(raw = "true"))
                          [] ptype = "int"  -> py_int(raw)
                          [] OTHER          -> Ok(StrV(raw))
             IN  IF IsError(r) THEN Step(h, r)
                 ELSE Step(SetField(h, o, "value", r.v), NoneV)

\* Property.load_xml: match (self.type or "string")
Property_load_xml(h, o, element) ==
    LET t      == h[o].fields["type"]
        ptype  == IF t = NoneV THEN "string" ELSE IF t.v = "" THEN "string" ELSE t.v
    IN  IF ptype \notin {"bool", "int", "string"}
        THEN Step(h, RaiseWith("ValueError", <<"unknown property type", ptype>>))
        ELSE IF "value" \notin DOMAIN element.attrib
             THEN Step(h, RaiseWith("KeyError", <<"value">>))
        ELSE LET raw == element.attrib["value"]
                 r   == CASE ptype = "bool" -> Ok(BoolV(raw = "true"))
                          [] ptype = "int"  -> py_int(raw)
                          [] OTHER          -> Ok(StrV(raw))
             IN  IF IsError(r) THEN Step(h, r)
                 ELSE Step(SetField(h, o, "value", r.v), NoneV)

\* A group that hands its objects to its own parent.
ObjectGroup_load_xml_handing_up(h, o) ==
    LET objs == h[o].fields["objects"].v
    IN  Step([x \in DOMAIN h |->
                IF \E k \in DOMAIN objs : objs[k] = x THEN [h[x] EXCEPT !.parent = h[o].parent]
                ELSE h[x]],
             NoneV)

\* ObjectGroup.load_xml: for i in self.objects: i.parent = self
ObjectGroup_load_xml(h, o) ==
    LET objs == h[o].fields["objects"].v
    IN  Step([x \in DOMAIN h |->
                IF \E k \in DOMAIN objs : objs[k] = x THEN [h[x] EXCEPT !.parent = o]
                ELSE h[x]],
             NoneV)

\* LayerData.load_xml: self.extend(int(i.strip()) for i in the cells of
\* element.text)
RECURSIVE ParseCells(_, _)
ParseCells(cells, i) ==
    IF i = 0 THEN Ok(<< >>)
    ELSE LET rest == ParseCells(cells, i - 1)
             cell == py_int(cells[i])
         IN  IF IsError(rest) THEN rest
             ELSE IF IsError(cell) THEN cell
             ELSE Ok(Append(rest.v, cell.v.v))

LayerData_load_xml(h, o, element) ==
    LET r == ParseCells(element.text, Len(element.text))
    IN  IF IsError(r) THEN Step(h, r)
        ELSE Step([h EXCEPT ![o].list = @ \o r.v], NoneV)

\* self.load_xml(loader, element), the last line of every generated
\* _load_xml
load_xml_hook(h, o, element, owner) ==
    CASE owner = "Properties"  -> Properties_load_xml(h, o)
      [] owner = "Property"    -> Property_load_xml(h, o, element)
      [] owner = "ObjectGroup" -> ObjectGroup_load_xml(h, o)
      [] owner = "LayerData"   -> LayerData_load_xml(h, o, element)
      [] OTHER                 -> Step(h, NoneV)

\* obj._load_xml(loader, data_obj): the generated function of the class;
\* Data._load_xml, which an object of an unknown tag runs, only warns
_load_xml(h, o, element) ==
    LET owner == SchemaOwner(h[o].cls)
    IN  IF owner = "Data" THEN Step(h, NoneV)
        ELSE LET r == LoadFields(h, o, element, owner, Schema(owner), 1)
             IN  IF r.err # NoneV THEN r
                 ELSE load_xml_hook(r.h, o, element, owner)

-----------------------------------------------------------------------------
(* Document build: the documents on disk *)

MapPath == <<"maps", "level.tmx">>
TilesetRef == <<"tilesets", "tiles.tsx">>
TilesetPath == <<"maps", "tilesets", "tiles.tsx">>

MapAttrib ==
    "width" :> "2" @@ "height" :> "1" @@ "tilewidth" :> "8" @@ "tileheight" :> "8"
    @@ "infinite" :> "0" @@ "nextlayerid" :> "3" @@ "nextobjectid" :> "2"

\* "" stands for an attribute the node does not carry
WithAttr(attrib, name, value) == IF value = "" THEN attrib ELSE Put(attrib, name, value)

PropertyNode(type, value) ==
    Element("property", WithAttr("name" :> "visible" @@ "value" :> value, "type", type),
            "", << >>)

PropertiesNode(p) == Element("properties", << >>, "", <<p>>)

DataNode == Element("data", << >>, <<"1", "2">>, << >>)

LayerNode(p) ==
    Element("layer", "id" :> "1" @@ "width" :> "2" @@ "height" :> "1", "",
            <<PropertiesNode(p), DataNode>>)

ObjectNode ==
    Element("object",
            "id" :> "1" @@ "x" :> "0" @@ "y" :> "0" @@ "width" :> "1" @@ "height" :> "1",
            "", << >>)

GroupNode(class) ==
    Element("objectgroup", WithAttr("id" :> "2", "class", class), "", <<ObjectNode>>)

ImageNode ==
    Element("image", "width" :> "8" @@ "height" :> "8" @@ "source" :> "tiles.png",
            "", << >>)

TileNode ==
    Element("tile", "id" :> "0", "", <<PropertiesNode(PropertyNode("bool", "true"))>>)

TilesetAttrib(firstgid) ==
    WithAttr("tilewidth" :> "8" @@ "tileheight" :> "8" @@ "tilecount" :> "4"
             @@ "columns" :> "2", "firstgid", firstgid)

\* A tileset written in place, and the root of a tileset file
TilesetNode(firstgid) ==
    Element("tileset", TilesetAttrib(firstgid), "", <<ImageNode, TileNode>>)

\* A tileset node that refers to a tileset file
TilesetRefNode(firstgid) ==
    Element("tileset", WithAttr("source" :> TilesetRef @@ "columns" :> "1",
                                "firstgid", firstgid),
            "", << >>)

MapNode(tileset, p, class) ==
    Element("map", MapAttrib, "", <<tileset, LayerNode(p), GroupNode(class)>>)

\* A map that holds a node of every class of src/tmx.py
GridNode == Element("grid", "width" :> "8" @@ "height" :> "8", "", << >>)

TextNode(text) ==
    Element("text", "fontfamily" :> "sans" @@ "pixelsize" :> "9" @@ "wrap" :> "1",
            text, << >>)

ImageLayerNode == Element("imagelayer", "id" :> "3", "", <<ImageNode>>)

FullMap(text) ==
    Element("map", MapAttrib, "",
            << Element("tileset", TilesetAttrib("1"), "", <<ImageNode, GridNode, TileNode>>),
               LayerNode(PropertyNode("int", "7")),
               ImageLayerNode,
               Element("objectgroup", "id" :> "2", "",
                       << [ObjectNode EXCEPT !.children = <<TextNode(text)>>] >>) >>)

\* The document el with attribute name taken off every node of a tag
RECURSIVE WithoutAttr(_, _, _)
WithoutAttr(el, tag, name) ==
    [el EXCEPT !.attrib = IF el.tag = tag THEN Remove(@, name) ELSE @,
               !.children = [i \in DOMAIN @ |-> WithoutAttr(@[i], tag, name)]]

\* The document el with the child nodes of one tag taken out of every node
\* of a tag
RECURSIVE WithoutChild(_, _, _)
WithoutChild(el, tag, child) ==
    LET Kept(c) == ~(el.tag = tag /\ c.tag = child)
        kept == SelectSeq(el.children, Kept)
    IN  [el EXCEPT !.children = [i \in DOMAIN kept |-> WithoutChild(kept[i], tag, child)]]

\* The document el with one more child node at the end of every node of a
\* tag
RECURSIVE WithChild(_, _, _)
WithChild(el, tag, child) ==
    LET below == [i \in DOMAIN el.children |-> WithChild(el.children[i], tag, child)]
    IN  [el EXCEPT !.children = IF el.tag = tag THEN Append(below, child) ELSE below]

\* The attributes the dfields of a tag's class read without optional=True
RequiredAttrs ==
    UNION { { <<tag, Schema(TAG_PARSERS[tag])[i].src>> :
                i \in { j \in DOMAIN Schema(TAG_PARSERS[tag]) :
                          /\ Schema(TAG_PARSERS[tag])[j].rule = "attr"
                          /\ ~Schema(TAG_PARSERS[tag])[j].optional } } :
            tag \in DOMAIN TAG_PARSERS }

\* The documents that lack one thing a dfield without optional=True reads:
\* an attribute, a child node, the text of a <text> node
IncompleteMaps ==
    { WithoutAttr(FullMap(StrV("hi")), ta[1], ta[2]) : ta \in RequiredAttrs }
    \cup { WithoutChild(FullMap(StrV("hi")), "tileset", "image"),
           WithoutChild(FullMap(StrV("hi")), "imagelayer", "image"),
           FullMap(NoneV) }

\* A node, with a child of its own, whose tags no class is registered for
UnknownNode ==
    Element("annotation", "author" :> "me", "",
            << Element("note", << >>, "", << >>) >>)

\* The tags of FullMap
FullMapTags ==
    {"map", "tileset", "image", "grid", "tile", "properties", "property", "layer",
     "data", "imagelayer", "objectgroup", "object", "text"}

\* FullMap with an unknown node as the last child of the nodes of one tag
AnnotatedMaps == { WithChild(FullMap(StrV("hi")), tag, UnknownNode) : tag \in FullMapTags }

\* FullMap with a second child node for a field that holds one child
DoubledMaps ==
    { WithChild(FullMap(StrV("hi")), "tileset", ImageNode),
      WithChild(FullMap(StrV("hi")), "imagelayer", ImageNode),
      WithChild(FullMap(StrV("hi")), "tile", PropertiesNode(PropertyNode("bool", "true"))) }

\* A tileset file that itself refers to a file, by a path that names one
\* file taken from the tileset file's directory and another taken from the
\* map's
InnerRef == <<"more", "extra.tsx">>
InnerPath == <<"maps", "tilesets", "more", "extra.tsx">>
OuterPath == <<"maps", "more", "extra.tsx">>

InnerRefNode ==
    Element("tileset", "source" :> InnerRef @@ "firstgid" :> "9", "", << >>)

NestedFiles ==
    MapPath :> MapNode(TilesetRefNode("5"), PropertyNode("int", "7"), "")
    @@ TilesetPath :> WithChild(TilesetNode("1"), "tileset", InnerRefNode)
    @@ InnerPath :> TilesetNode("1")
    @@ OuterPath :> Element("tileset", TilesetAttrib("1"), "", <<ImageNode>>)

PropertyNodes ==
    { PropertyNode("bool", v) : v \in {"true", "false", "1", "yes"} }
    \cup { PropertyNode("", "hello"), PropertyNode("int", "7"),
           PropertyNode("color", "red") }

GroupClasses == {"", "spawn", "boss", "other"}

\* The file systems a load runs against: the map alone with its tileset
\* in place, or the map and the tileset file it refers to
FileSystems ==
    { MapPath :> MapNode(TilesetNode("1"), p, c) : p \in PropertyNodes, c \in GroupClasses }
    \cup { MapPath :> MapNode(TilesetRefNode(rg), p, c) @@ TilesetPath :> TilesetNode(fg) :
             p \in PropertyNodes, c \in GroupClasses, rg \in {"", "5"}, fg \in {"", "1"} }
    \cup { MapPath :> m : m \in IncompleteMaps \cup {FullMap(StrV("hi"))} }
    \cup { MapPath :> m : m \in AnnotatedMaps \cup {UnknownNode} }
    \cup { MapPath :> m : m \in DoubledMaps }
    \cup { NestedFiles }
    \cup { MapPath :> MapNode(TilesetRefNode("5"), PropertyNode("int", "7"), "spawn")
           @@ TilesetPath :> WithChild(TilesetNode("1"), "tile", UnknownNode) }

-----------------------------------------------------------------------------
(* Document build: BaseLoader.load as a stack of _load calls *)

\* obj = cls(); obj.parent = parent; obj.data_path = path;
\* if cls.MAYBE_REMOTE: obj.source = path.  raw is the element the object
\* is built from and ref the attributes of the node that referred to a
\* file, NoneV when the element was written in place.
NewObject(cls, parent, path, element, ref) ==
    [cls |-> cls, parent |-> parent, data_path |-> PathV(path),
     source |-> IF MAYBE_REMOTE(cls) THEN PathV(path) ELSE NoneV,
     raw |-> [tag |-> element.tag, attrib |-> element.attrib], ref |-> ref,
     fields |-> IF issubclass(cls, "LayerData")
                THEN "width" :> NoneV @@ "height" :> NoneV ELSE << >>,
     data_children |-> << >>, children_deleted |-> FALSE,
     bag |-> IF issubclass(cls, "Properties") THEN Properties_init ELSE NoneV,
     list |-> << >>, post_loads |-> 0]

\* BaseLoader.load_xml up to cls2._load, then TypeSpecializable._load
Dispatch(et, types, strictly) ==
    IF et.tag \notin DOMAIN tag_parsers /\ strictly
    THEN [err |-> RaiseWith("ValueError", <<"unknown tag", et.tag>>), cls |-> ""]
    ELSE LET cls2 == IF et.tag \in DOMAIN tag_parsers THEN tag_parsers[et.tag] ELSE "Data"
         IN  [err |-> NoneV, cls |-> Specialize(cls2, et.attrib, types)]

\* A remote path taken relative to the primary document, whatever file the
\* reference stands in.
RemotePath_from_primary(path, src) == join(dirname(MapPath), src)

\* rsrc_path = os.path.join(os.path.dirname(path), src)
RemotePath(path, src) == join(dirname(path), src)

\* loader.load_xml(et, path, ...) down to the class that constructs the
\* object: Data._load follows a source attribute of a MAYBE_REMOTE class
\* to the file, overlays the node's attributes on the file's root and
\* dispatches again on the result
Resolve(et, path, fs, types, strictly) ==
    LET d == Dispatch(et, types, strictly)
        here == [err |-> d.err, cls |-> d.cls, element |-> et, path |-> path,
                 src |-> NoneV, ref |-> NoneV]
    IN  IF d.err # NoneV THEN here
        ELSE IF ~(MAYBE_REMOTE(d.cls) /\ "source" \in DOMAIN et.attrib) THEN here
        ELSE LET src == et.attrib["source"]
                 rsrc_path == RemotePath(path, src)
             IN  IF rsrc_path \notin DOMAIN fs
                 THEN [here EXCEPT !.err = Raise("FileNotFoundError")]
                 ELSE LET rsrc == [fs[rsrc_path] EXCEPT !.attrib = Overlay(@, et.attrib)]
                          d2 == Dispatch(rsrc, types, strictly)
                      IN  [err |-> d2.err, cls |-> d2.cls, element |-> rsrc,
                           path |-> rsrc_path, src |-> PathV(src), ref |-> et.attrib]

\* An exception that load swallows: it goes on to its post_load loop.
Fail_swallowed(err) ==
    /\ phase' = "post_load"
    /\ result' = err
    /\ stack' = << >>

\* An exception leaves load
Fail(err) ==
    /\ phase' = "failed"
    /\ result' = err
    /\ stack' = << >>

\* [... for i in data_obj if i.tag not in cls.XML_IGNORE]
Children(cls, element) ==
    LET Kept(i) == i.tag \notin XML_IGNORE(cls)
    IN  SelectSeq(element.children, Kept)

\* A call beyond the limit that waits instead of raising.
TooDeep_waiting(h) == UNCHANGED <<phase, result, stack, entries>>

\* The interpreter refuses a call nested deeper than its recursion limit:
\* RecursionError leaves load like any other exception
TooDeep(h) == Fail(Raise("RecursionError")) /\ entries' = h

\* loader.load_xml(et, path, parent, loaded_memo) up to the point where
\* the new object starts loading its children
Call(et, path, parent, below, h) ==
    LET r == Resolve(et, path, files, object_types, strict)
        o == Len(h) + 1
    IN  IF Len(below) >= RecursionLimit THEN TooDeep(h)
        ELSE IF r.err # NoneV THEN Fail(r.err) /\ entries' = h
        ELSE /\ entries' = Append(h, NewObject(r.cls, parent, r.path, r.element, r.ref))
             /\ stack' = Append(below, [obj |-> o, element |-> r.element, path |-> r.path,
                                        todo |-> Children(r.cls, r.element), next |-> 1,
                                        built |-> << >>, src |-> r.src])
             /\ phase' = "building"
             /\ result' = NoneV

LoadIdle ==
    /\ files = << >>
    /\ tag_parsers = TAG_PARSERS
    /\ object_types = << >>
    /\ declared = {}
    /\ phase = "idle"
    /\ stack = << >>
    /\ entries = << >>
    /\ loaded_memo = << >>
    /\ memo_pos = 0
    /\ result = NoneV
    /\ load_path = << >>
    /\ strict = STRICT
    /\ loads = 0
    /\ previous = NoneV

\* A program about to load: its loader is a BaseLoader, or an instance of a
\* subclass declared with strict=True
LoadInit ==
    /\ files \in FileSystems
    /\ tag_parsers = TAG_PARSERS
    /\ object_types = [b \in SpecializableBases |-> << >>]
    /\ declared = {}
    /\ phase = "idle"
    /\ stack = << >>
    /\ entries = << >>
    /\ loaded_memo = << >>
    /\ memo_pos = 0
    /\ result = NoneV
    /\ load_path = << >>
    /\ strict \in {STRICT, TRUE}
    /\ loads = 0
    /\ previous = NoneV

\* The files a PygameLoader is given
PygameFiles ==
    { MapPath :> MapNode(TilesetNode("1"), PropertyNode("int", "7"), c) : c \in GroupClasses }
    \cup { MapPath :> MapNode(TilesetRefNode("5"), PropertyNode("int", "7"), c)
             @@ TilesetPath :> TilesetNode("1") : c \in GroupClasses }

\* A tileset node that refers to the file it is in
SelfRefNode(name) ==
    Element("tileset", "source" :> <<name>> @@ "firstgid" :> "9", "", << >>)

\* Files whose references lead back to a file being loaded (a tileset file
\* holding a tileset that refers to the same file, reached from a map or
\* loaded itself), next to files whose references end
CyclicFiles ==
    { MapPath :> MapNode(TilesetRefNode("5"), PropertyNode("int", "7"), "")
        @@ TilesetPath :> WithChild(TilesetNode("1"), "tileset", SelfRefNode("tiles.tsx")),
      MapPath :> WithChild(TilesetNode("1"), "tileset", SelfRefNode("level.tmx")),
      MapPath :> WithChild(TilesetNode("1"), "tileset", TilesetRefNode("5"))
        @@ TilesetPath :> TilesetNode("1"),
      MapPath :> TilesetNode("1") }

\* A program about to load files that may refer back to themselves
CyclicInit ==
    /\ files \in CyclicFiles
    /\ tag_parsers = TAG_PARSERS
    /\ object_types = [b \in SpecializableBases |-> << >>]
    /\ declared = {}
    /\ phase = "idle"
    /\ stack = << >>
    /\ entries = << >>
    /\ loaded_memo = << >>
    /\ memo_pos = 0
    /\ result = NoneV
    /\ load_path = << >>
    /\ strict = STRICT
    /\ loads = 0
    /\ previous = NoneV

\* A program about to load with a PygameLoader
PygameInit ==
    /\ files \in PygameFiles
    /\ tag_parsers = PygameParsers
    /\ object_types = [b \in SpecializableBases |-> << >>]
    /\ declared = {}
    /\ phase = "idle"
    /\ stack = << >>
    /\ entries = << >>
    /\ loaded_memo = << >>
    /\ memo_pos = 0
    /\ result = NoneV
    /\ load_path = << >>
    /\ strict = STRICT
    /\ loads = 0
    /\ previous = NoneV

\* class c(base, tiled_class=...): TypeSpecializable.__init_subclass__
DeclareSubclass ==
    /\ phase = "idle"
    /\ \E c \in UserClasses \ declared :
        /\ UserBase[c] \in UserClasses => UserBase[c] \in declared
        /\ declared' = declared \cup {c}
        /\ object_types' = [object_types EXCEPT ![OBJECT_BASE(c)] = Put(@, UserTiledClass[c], c)]
    /\ UNCHANGED <<files, tag_parsers, phase, stack, entries, loaded_memo, memo_pos, result, load_path,
                   strict, loads, previous>>
    /\ UNCHANGED <<tileVars, gridVars, bagVars, tileObjVars, fieldVars, polyVars, registryVars>>

\* A creation list that takes the objects of the registered classes only.
loaded_memo_append_registered(memo, obj) ==
    IF entries[obj].cls = "Data" THEN memo ELSE Append(memo, obj)

\* A creation list that grows at the front.
loaded_memo_append_front(memo, obj) == <<obj>> \o memo

\* loaded_memo.append(obj)
loaded_memo_append(memo, obj) == Append(memo, obj)

\* A creation list that a load call takes over from the call before it.
fresh_memo_kept(memo) == memo

\* loaded_memo = []
fresh_memo(memo) == << >>

\* What a finished load call leaves for a comparison with the next one
Outcome_of_load ==
    [phase |-> phase, result |-> result, entries |-> entries, loaded_memo |-> loaded_memo]

\* BaseLoader.load(path), up to the construction of the root object.  The
\* objects of an earlier call are no longer part of the build: object ids
\* start again at 1.
Load ==
    /\ phase \in {"idle", "returned", "failed"}
    /\ loads < MaxLoads
    /\ loads' = loads + 1
    /\ previous' = IF phase = "idle" THEN NoneV ELSE Outcome_of_load
    /\ load_path' = MapPath
    /\ loaded_memo' = fresh_memo(loaded_memo)
    /\ memo_pos' = 0
    /\ Call(files[MapPath], MapPath, 0, << >>, << >>)
    /\ UNCHANGED <<files, tag_parsers, object_types, declared, strict>>
    /\ UNCHANGED <<tileVars, gridVars, bagVars, tileObjVars, fieldVars, polyVars, registryVars>>

\* Data._load: the next loader.load_xml(i, path, obj, loaded_memo) of the
\* list that becomes obj.data_children
BuildChild ==
    /\ phase = "building"
    /\ LET top == stack[Len(stack)]
       IN  /\ top.next <= Len(top.todo)
           /\ Call(top.todo[top.next], top.path, top.obj,
                   [stack EXCEPT ![Len(stack)].next = @ + 1], entries)
    /\ UNCHANGED <<files, tag_parsers, object_types, declared, loaded_memo, memo_pos, load_path,
                   strict, loads, previous>>
    /\ UNCHANGED <<tileVars, gridVars, bagVars, tileObjVars, fieldVars, polyVars, registryVars>>

\* Data._load once the children are built: obj.data_children = [...],
\* obj._load_xml(loader, data_obj), loaded_memo.append(obj), return obj;
\* the call that followed a source attribute then sets obj.source = src
FinishNode ==
    /\ phase = "building"
    /\ LET top == stack[Len(stack)]
           o   == top.obj
           r   == _load_xml([entries EXCEPT ![o].data_children = top.built], o, top.element)
       IN  /\ top.next > Len(top.todo)
           /\ IF r.err # NoneV
              THEN Fail(r.err) /\ entries' = r.h /\ UNCHANGED <<loaded_memo, memo_pos>>
              ELSE /\ entries' = IF top.src # NoneV THEN [r.h EXCEPT ![o].source = top.src]
                                 ELSE r.h
                   /\ loaded_memo' = loaded_memo_append(loaded_memo, o)
                   /\ IF Len(stack) = 1
                      THEN /\ stack' = << >>
                           /\ result' = ObjV(o)
                           /\ phase' = "post_load"
                           /\ memo_pos' = 0
                      ELSE /\ stack' = [SubSeq(stack, 1, Len(stack) - 1)
                                          EXCEPT ![Len(stack) - 1].built = Append(@, o)]
                           /\ UNCHANGED <<result, phase, memo_pos>>
    /\ UNCHANGED <<files, tag_parsers, object_types, declared, load_path, strict, loads, previous>>
    /\ UNCHANGED <<tileVars, gridVars, bagVars, tileObjVars, fieldVars, polyVars, registryVars>>

\* BaseLoader.load: for obj in loaded_memo: obj.post_load(), the dummy
\* Data.post_load, which no class of src/tmx.py overrides
PostLoad ==
    /\ phase = "post_load"
    /\ memo_pos < Len(loaded_memo)
    /\ memo_pos' = memo_pos + 1
    /\ entries' = [entries EXCEPT ![loaded_memo[memo_pos + 1]].post_loads = @ + 1]
    /\ UNCHANGED <<files, tag_parsers, object_types, declared, phase, stack, loaded_memo, result, load_path,
                   strict, loads, previous>>
    /\ UNCHANGED <<tileVars, gridVars, bagVars, tileObjVars, fieldVars, polyVars, registryVars>>

\* BaseLoader.load: return result
Return ==
    /\ phase = "post_load"
    /\ memo_pos = Len(loaded_memo)
    /\ phase' = "returned"
    /\ UNCHANGED <<files, tag_parsers, object_types, declared, stack, entries, loaded_memo, memo_pos,
                   result, load_path, strict, loads, previous>>
    /\ UNCHANGED <<tileVars, gridVars, bagVars, tileObjVars, fieldVars, polyVars, registryVars>>

LoadNext ==
    \/ DeclareSubclass
    \/ Load
    \/ BuildChild
    \/ FinishNode
    \/ PostLoad
    \/ Return

\* The steps of a load call in progress
LoadStep == BuildChild \/ FinishNode \/ PostLoad \/ Return

-----------------------------------------------------------------------------
(* Claims about the document build *)

\* The objects load has built so far
Built == DOMAIN entries

\* The Property objects whose type attribute is "bool"
BoolProperties ==
    { o \in Built : /\ issubclass(entries[o].cls, "Property")
                    /\ "type" \in DOMAIN entries[o].raw.attrib
                    /\ entries[o].raw.attrib["type"] = "bool" }

\* C5 as stated: when load returns, every Property Bag of the document is
\* frozen (and so has made its one unfrozen-to-frozen transition).
C5_BagsFrozenOnReturn ==
    phase = "returned" =>
        \A o \in Built : entries[o].bag # NoneV => entries[o].bag.frozen

\* C8 as stated: a property of type bool is decoded to false when its raw
\* text is "false" and to true for any other raw text, and the bag of its
\* parent holds that value under the property's name.
C8_BoolDecoding ==
    phase = "returned" =>
        \A o \in BoolProperties :
            LET e   == entries[o]
                raw == e.raw.attrib["value"]
                held == entries[e.parent].bag.items
            IN  /\ e.fields["value"] = BoolV(raw # "false")
                /\ e.raw.attrib["name"] \in DOMAIN held
                /\ held[e.raw.attrib["name"]] = BoolV(raw # "false")

\* The class C9 expects for an object-group node: the subtype registered
\* under the node's class attribute, else the base type
ExpectedGroupClass(attrib) ==
    LET registered == object_types["ObjectGroup"]
    IN  IF "class" \in DOMAIN attrib /\ attrib["class"] \in DOMAIN registered
        THEN registered[attrib["class"]]
        ELSE "ObjectGroup"

\* C9: when the build reaches an object-group node, the step constructs an
\* object without raising; its class is the subtype registered under the
\* node's class attribute, and the base ObjectGroup when the attribute is
\* absent or names no registered subtype.
C9_GroupSpecialization ==
    [][ (/\ phase = "building"
         /\ stack[Len(stack)].next <= Len(stack[Len(stack)].todo)
         /\ stack[Len(stack)].todo[stack[Len(stack)].next].tag = "objectgroup")
        => LET node == stack[Len(stack)].todo[stack[Len(stack)].next]
           IN  /\ phase' = "building"
               /\ Len(entries') = Len(entries) + 1
               /\ entries'[Len(entries')].raw.attrib = node.attrib
               /\ entries'[Len(entries')].cls = ExpectedGroupClass(node.attrib) ]_vars

\* A load has returned a document whose object group, written with
\* class="spawn", is a SpawnGroup, the subtype registered under "spawn".
C9_Witness ==
    /\ phase = "returned"
    /\ \E o \in Built :
        /\ entries[o].raw.tag = "objectgroup"
        /\ "class" \in DOMAIN entries[o].raw.attrib
        /\ entries[o].raw.attrib["class"] = "spawn"
        /\ entries[o].cls = "SpawnGroup"

\* The objects built from a file that a node's source attribute named
Referred == { o \in Built : entries[o].ref # NoneV }

\* C10: an object built through a source attribute is built from the root
\* of the file at dirname(path)/source with the referring node's attributes
\* laid over it: every attribute of the referring node other than source
\* has the referring node's value, every other attribute has the file's,
\* and source itself is gone.  Its fields are read from the result (a
\* referring firstgid wins over the file's).  Once built, its recorded
\* source is the source attribute as written, not the path of the file.
C10_RemoteOverlay ==
    \A o \in Referred :
        LET e      == entries[o]
            src    == e.ref["source"]
            target == entries[e.parent].data_path.v
            file   == SubSeq(target, 1, Len(target) - 1) \o src
            merged == e.raw.attrib
        IN  /\ file \in DOMAIN files
            /\ e.data_path = PathV(file)
            /\ e.raw.tag = files[file].tag
            /\ DOMAIN merged = (DOMAIN files[file].attrib \cup DOMAIN e.ref) \ {"source"}
            /\ \A k \in DOMAIN merged :
                merged[k] = IF k \in DOMAIN e.ref THEN e.ref[k] ELSE files[file].attrib[k]
            /\ (\E i \in DOMAIN loaded_memo : loaded_memo[i] = o) =>
                /\ e.source = PathV(src)
                /\ "firstgid" \in DOMAIN e.ref =>
                    e.fields["firstgid"] = IntV(Numerals[e.ref["firstgid"]])

\* A load has returned a Tileset built from tilesets/tiles.tsx, whose root
\* says firstgid="1", through a node that says firstgid="5": the tileset's
\* firstgid is 5, and its source is the reference as written while the
\* file it was read from is maps/tilesets/tiles.tsx.
C10_Witness ==
    /\ phase = "returned"
    /\ \E o \in Referred :
        /\ entries[o].cls = "Tileset"
        /\ "firstgid" \in DOMAIN entries[o].ref
        /\ entries[o].ref["firstgid"] = "5"
        /\ "firstgid" \in DOMAIN files[TilesetPath].attrib
        /\ files[TilesetPath].attrib["firstgid"] = "1"
        /\ entries[o].fields["firstgid"] = IntV(5)
        /\ entries[o].source = PathV(TilesetRef)
        /\ entries[o].data_path = PathV(TilesetPath)

\* C11: a load call made after another one on the same loader and the
\* same files ends as the one before it did: it returns or fails alike,
\* with the same result, and its objects and its creation list equal the
\* earlier call's, object for object (class, field values, child order).
C11_Deterministic ==
    (phase \in {"returned", "failed"} /\ previous # NoneV) =>
        /\ phase = previous.phase
        /\ result = previous.result
        /\ entries = previous.entries
        /\ loaded_memo = previous.loaded_memo

\* A second load of a map with a tileset file and a specialized object
\* group has returned.
C11_Witness ==
    /\ phase = "returned"
    /\ loads = 2
    /\ previous # NoneV
    /\ Referred # {}
    /\ \E o \in Built : entries[o].cls = "SpawnGroup"

\* The dfields of an object's class, declared without optional=True, whose
\* value the object's raw node lacks: an attribute that is not there, a
\* single child of which no loaded child is an instance, a text that is None
MissingRequired(cls, element, children) ==
    LET fields == Schema(SchemaOwner(cls))
    IN  { i \in DOMAIN fields :
            /\ ~fields[i].optional
            /\ \/ fields[i].rule = "attr" /\ fields[i].src \notin DOMAIN element.attrib
               \/ /\ fields[i].rule = "child"
                  /\ \A k \in DOMAIN children :
                        ~isinstance(entries[children[k]].cls, fields[i].type)
               \/ fields[i].rule = "text" /\ element.text = NoneV }

\* The message of an exception says a word
Names(err, word) == "args" \in DOMAIN err /\ \E i \in DOMAIN err.args : err.args[i] = word

\* C12 as stated: when the build has loaded the children of a node that
\* lacks the value of a required field and turns to the node's fields, the
\* load fails, with an error that names the field and the entity type (its
\* class or its tag), and returns no document.
C12_MissingRequiredField ==
    [][ LET top  == stack[Len(stack)]
            cls  == entries[top.obj].cls
            lack == MissingRequired(cls, top.element, top.built)
            flds == Schema(SchemaOwner(cls))
        IN  (phase = "building" /\ top.next > Len(top.todo) /\ lack # {}) =>
                /\ phase' = "failed"
                /\ \E i \in lack :
                    Names(result', flds[i].name) \/ Names(result', flds[i].src)
                /\ Names(result', SchemaOwner(cls)) \/ Names(result', top.element.tag) ]_vars

\* The node the build turns to next, when it is about to build one: the
\* next child of the innermost object
NextNode == stack[Len(stack)].todo[stack[Len(stack)].next]

AboutToBuild ==
    phase = "building" /\ stack[Len(stack)].next <= Len(stack[Len(stack)].todo)

AboutToFinish ==
    phase = "building" /\ stack[Len(stack)].next > Len(stack[Len(stack)].todo)

\* C13 as stated: when the build reaches an element whose tag is not
\* registered, a strict loader fails with an unknown-tag error; a lenient
\* loader builds a generic object for it, the object ends up without
\* fields among the children of its parent, and the load goes on: the
\* parent's own loading does not fail.
C13_UnknownTag ==
    [][ /\ (AboutToBuild /\ NextNode.tag \notin DOMAIN TAG_PARSERS) =>
             IF strict
             THEN phase' = "failed" /\ Names(result', "unknown tag")
             ELSE /\ phase' = "building"
                  /\ Len(entries') = Len(entries) + 1
                  /\ entries'[Len(entries')].cls = "Data"
                  /\ entries'[Len(entries')].parent = stack[Len(stack)].obj
        /\ (AboutToFinish /\ ~strict) =>
             LET top == stack[Len(stack)]
             IN  /\ entries[top.obj].cls = "Data" =>
                    phase' # "failed" /\ entries'[top.obj].fields = << >>
                 /\ \A k \in DOMAIN top.built :
                      entries[top.built[k]].cls = "Data" =>
                        /\ phase' # "failed"
                        /\ \E j \in DOMAIN entries'[top.obj].data_children :
                              entries'[top.obj].data_children[j] = top.built[k] ]_vars

\* The single-child fields of a class that several of the children match
MultipleMatches(cls, children) ==
    LET fields == Schema(SchemaOwner(cls))
    IN  { i \in DOMAIN fields :
            /\ fields[i].rule = "child"
            /\ \E j, k \in DOMAIN children :
                  /\ j # k
                  /\ isinstance(entries[children[j]].cls, fields[i].type)
                  /\ isinstance(entries[children[k]].cls, fields[i].type) }

\* C14 as stated: when the build has loaded the children of a node and more
\* than one of them matches a field that holds a single child, loading the
\* node's fields fails the load; no one of the matches is taken.
C14_MultipleMatches ==
    [][ LET top == stack[Len(stack)]
        IN  (AboutToFinish /\ MultipleMatches(entries[top.obj].cls, top.built) # {}) =>
                phase' = "failed" ]_vars

\* The exception the next step of the build raises, NoneV when it raises
\* none: the step is the construction of the root, of the next child, or
\* the loading of the fields of the innermost object
RaisedNext ==
    CASE phase \in {"idle", "returned", "failed"} ->
           Resolve(files[MapPath], MapPath, files, object_types, strict).err
      [] AboutToBuild ->
           Resolve(NextNode, stack[Len(stack)].path, files, object_types, strict).err
      [] AboutToFinish ->
           LET top == stack[Len(stack)]
           IN  _load_xml([entries EXCEPT ![top.obj].data_children = top.built],
                         top.obj, top.element).err
      [] OTHER -> NoneV

\* C15: a step of the build that raises, at a node of the primary file or of
\* a file referred to, ends the load call as failed: the exception is its
\* outcome and no document, no object is under construction any more, no
\* object has had post_load invoked; and nothing is built or invoked
\* afterwards unless load is called again.
C15_FailureAborts ==
    [][ /\ (RaisedNext # NoneV /\ (phase = "building" \/ loads' # loads)) =>
              /\ phase' = "failed"
              /\ IsError(result')
              /\ stack' = << >>
              /\ \A o \in DOMAIN entries' : entries'[o].post_loads = 0
        /\ (phase = "failed" /\ loads' = loads) =>
              UNCHANGED <<phase, result, entries, loaded_memo, memo_pos, stack>> ]_vars

\* A load that failed at a node of the tileset file after objects of that
\* file had been completed
C15_Witness ==
    /\ phase = "failed"
    /\ IsError(result)
    /\ loaded_memo # << >>
    /\ entries[Len(entries)].data_path = PathV(TilesetPath)
    /\ \A k \in DOMAIN loaded_memo : entries[loaded_memo[k]].data_path = PathV(TilesetPath)

\* The places an object has in the creation list
Places(o) == { k \in DOMAIN loaded_memo : loaded_memo[k] = o }

\* C16: post_load is invoked on no object more than once and on none while
\* an object of the tree is still being built or is missing from the
\* creation list; the objects it has been invoked on are those of a front
\* part of the creation list; and when load has returned a document, every
\* object it built stands in the creation list exactly once and has had
\* post_load invoked exactly once.
C16_CreationListAndPostLoad ==
    /\ \A o \in Built :
          /\ entries[o].post_loads <= 1
          /\ entries[o].post_loads = 1 =>
                /\ stack = << >>
                /\ \A p \in Built : Cardinality(Places(p)) = 1
                /\ \A k \in Places(o) : \A j \in 1..k : entries[loaded_memo[j]].post_loads = 1
    /\ phase = "returned" =>
          \A o \in Built : Cardinality(Places(o)) = 1 /\ entries[o].post_loads = 1

\* A document returned with an object from a tileset file, an object of a
\* declared subclass and a generic object of an unregistered tag
C16_Witness ==
    /\ phase = "returned"
    /\ \E o \in Built : entries[o].ref # NoneV
    /\ \E o \in Built : entries[o].cls = "SpawnGroup"
    /\ \E o \in Built : entries[o].cls = "Data" /\ entries[o].data_path = PathV(TilesetPath)

\* The path in force where an object's node stands: the path load was
\* called with for the root, the data path of the parent otherwise
PathAround(o) ==
    IF entries[o].parent = 0 THEN load_path ELSE entries[entries[o].parent].data_path.v

\* C20: at every level of the tree, an object built through a source
\* attribute records as its data path the file found from the directory of
\* the file its referring node stands in, and every other object records
\* the file of its parent: below a reference the path in force is the path
\* of the file referred to, for further references too.
C20_PathSwitched ==
    \A o \in Built :
        entries[o].data_path =
            IF o \in Referred
            THEN PathV(join(dirname(PathAround(o)), entries[o].ref["source"]))
            ELSE PathV(PathAround(o))

\* A load has returned a document in which a tileset file referred to a
\* further file: the Tileset built from it, and the objects below it,
\* record maps/tilesets/more/extra.tsx
C20_Witness ==
    /\ phase = "returned"
    /\ \E o \in Referred :
          /\ entries[o].parent # 0
          /\ entries[entries[o].parent].data_path = PathV(TilesetPath)
          /\ entries[o].data_path = PathV(InnerPath)
          /\ \E c \in Built : entries[c].parent = o /\ entries[c].data_path = PathV(InnerPath)

\* The grids of tile layers: the LayerData objects built below a TileLayer
LayerGrids ==
    { o \in Built : /\ issubclass(entries[o].cls, "LayerData")
                    /\ entries[o].parent # 0
                    /\ issubclass(entries[entries[o].parent].cls, "TileLayer") }

\* C21 as stated: when load has returned a document, the grid of every tile
\* layer has the width and height of its layer, and reading data[(x, y)] for
\* 0 <= x < width, 0 <= y < height returns the id at y*width + x.
C21_GridBackfilled ==
    phase = "returned" =>
        \A o \in LayerGrids :
            LET layer == entries[entries[o].parent]
                self  == LayerData_init(entries[o].list, entries[o].fields["width"],
                                        entries[o].fields["height"])
                w     == layer.fields["width"].v
                h     == layer.fields["height"].v
            IN  /\ self.width = layer.fields["width"]
                /\ self.height = layer.fields["height"]
                /\ \A x \in 0..(w - 1), y \in 0..(h - 1) :
                      LayerData_getitem(self, [kind |-> "tuple", v |-> <<x, y>>])
                          = Ok(self.data[y * w + x + 1])

\* C22: an object comes into being with its parent assigned, no child
\* built and no field loaded; the parent is the object whose _load call is
\* the innermost one at that moment (for an object built through a source
\* attribute that is the object holding the referring node), and none for
\* the root; and no later step of the load changes an object's parent.
C22_ParentFirst ==
    [][ /\ ((Len(entries') = Len(entries) + 1 \/ loads' # loads) /\ Len(entries') >= 1) =>
                LET new == entries'[Len(entries')]
                IN  /\ new.parent = IF loads' # loads THEN 0 ELSE stack[Len(stack)].obj
                    /\ new.data_children = << >>
                    /\ \A f \in DOMAIN new.fields : new.fields[f] = NoneV
                    /\ \A o \in DOMAIN entries' : entries'[o].parent # Len(entries')
        /\ loads' = loads =>
              \A o \in DOMAIN entries : entries'[o].parent = entries[o].parent ]_vars

\* A document returned whose root has no parent, with a Tileset built from
\* the tileset file below the root and an object group whose load_xml has
\* assigned the parent of its objects
C22_Witness ==
    /\ phase = "returned"
    /\ entries[result.v].parent = 0
    /\ \E o \in Referred : entries[o].parent = result.v /\ entries[o].cls = "Tileset"
    /\ \E g \in Built :
          /\ issubclass(entries[g].cls, "ObjectGroup")
          /\ entries[g].fields["objects"].v # << >>
          /\ \A k \in DOMAIN entries[g].fields["objects"].v :
                entries[entries[g].fields["objects"].v[k]].parent = g

\* C24: the creation list is in post-order.  Every object built under a
\* recorded object stands before it in the list; no object is built under
\* an object already recorded (one not yet in the list would break the first); when post_load has been
\* invoked on an object it has been invoked on every object built under it;
\* and the root of a returned document is the last of the list.
C24_PostOrder ==
    /\ \A o \in Built :
          LET p == entries[o].parent
          IN  (p # 0 /\ Places(p) # {}) =>
                 /\ \E k \in Places(o) : \A j \in Places(p) : k < j
                 /\ entries[p].post_loads = 1 => entries[o].post_loads = 1
    /\ phase = "returned" =>
          /\ loaded_memo # << >>
          /\ loaded_memo[Len(loaded_memo)] = result.v
          /\ entries[result.v].parent = 0

\* A returned document three levels deep somewhere, with an object from the
\* tileset file among the descendants
C24_Witness ==
    /\ phase = "returned"
    /\ Len(loaded_memo) = Len(entries)
    /\ Referred # {}
    /\ \E o \in Built :
          /\ entries[o].parent # 0
          /\ entries[entries[o].parent].parent # 0
          /\ entries[o].data_path = PathV(TilesetPath)

\* The class C25 expects for a node of a specializable tag: the subtype
\* registered under the node's discriminant, else the class the loader's
\* registry holds for the tag
ExpectedClass(node) ==
    LET cls2       == tag_parsers[node.tag]
        registered == object_types[OBJECT_BASE(cls2)]
    IN  IF ATTRIB(cls2) \in DOMAIN node.attrib /\ node.attrib[ATTRIB(cls2)] \in DOMAIN registered
        THEN registered[node.attrib[ATTRIB(cls2)]]
        ELSE cls2

\* C25 as stated: whatever class the loader's registry holds for objectgroup
\* (PygameLoader holds its own subclass of ObjectGroup), when the build
\* reaches an object-group node it constructs the subtype registered under
\* the node's class attribute, and the loader's registered class when the
\* attribute is absent or names no registered subtype.
C25_SpecializationUnderDerivedLoader ==
    [][ (AboutToBuild /\ NextNode.tag = "objectgroup") =>
            /\ phase' = "building"
            /\ Len(entries') = Len(entries) + 1
            /\ entries'[Len(entries')].cls = ExpectedClass(NextNode) ]_vars

\* The build is about to load the fields of a <property> node that has a
\* name and a value and whose type is none of bool, int, string
UnknownTypeNext ==
    /\ AboutToFinish
    /\ LET node == stack[Len(stack)].element
       IN  /\ node.tag = "property"
           /\ {"name", "value", "type"} \subseteq DOMAIN node.attrib
           /\ node.attrib["type"] \notin {"bool", "int", "string", ""}

\* C26 as stated: a property whose declared type is not a recognized one is
\* decoded like string: the step does not fail and the property's value is
\* its raw text.
C26_UnknownTypeAsString ==
    [][ UnknownTypeNext =>
            LET top == stack[Len(stack)]
            IN  /\ phase' # "failed"
                /\ entries'[top.obj].fields["value"] = StrV(top.element.attrib["value"]) ]_vars

\* C26 amended: a property whose declared type is none of bool, int, string
\* fails the load with a ValueError that says "unknown property type" and
\* names the type; the property gets no value.
C26_UnknownTypeFails ==
    [][ UnknownTypeNext =>
            LET top == stack[Len(stack)]
            IN  /\ phase' = "failed"
                /\ result'.kind = "ValueError"
                /\ Names(result', "unknown property type")
                /\ Names(result', top.element.attrib["type"])
                /\ "value" \notin DOMAIN entries'[top.obj].fields ]_vars

\* A load failed on a property of type color
C26_Witness ==
    /\ phase = "failed"
    /\ result.kind = "ValueError"
    /\ Names(result, "unknown property type")
    /\ Names(result, "color")
    /\ entries[Len(entries)].cls = "Property"

-----------------------------------------------------------------------------
(* SpecTileObj: one Tile object, made by Tile(...) or by the loader, and the
   attribute assignments and deletions made on it *)

MaxTileId == 1

\* The names assigned and deleted: the alias, the attribute it stands for,
\* and the dfields of Tile
TileAttrNames == {"tileset", "parent", "id", "properties", "frozen"}

\* The values assigned: None, a local id, a Tileset or Properties object
TileAttrValues == {NoneV, ObjV(1)} \cup { IntV(i) : i \in 0..MaxTileId }

\* A tileset field that keeps a value of its own.
Tile_target_own(name) ==
    CASE name \in {"tileset", "id", "properties", "frozen"} -> "_" \o name
      [] OTHER -> name

\* The attribute a descriptor of Tile stores into: alias("parent") for
\* tileset, dfield.true_name for the dfields; the name itself otherwise
Tile_target(name) ==
    CASE name = "tileset" -> "parent"
      [] name \in {"id", "properties", "frozen"} -> "_" \o name
      [] OTHER -> name

\* hasattr(self, "frozen"): dfield.__get__ reads self._frozen
Tile_hasattr_frozen(attrs) == "_frozen" \in DOMAIN attrs

\* Tile.__setattr__(name, value).  The descriptor an assignment goes through
\* calls setattr again with the name it stores into; the frozen test made
\* there has the outcome of the first one.
Tile_setattr(attrs, name, value) ==
    IF Tile_hasattr_frozen(attrs)
    THEN [attrs |-> attrs, result |-> Raise("AttributeError")]
    ELSE [attrs |-> Put(attrs, Tile_target(name), value), result |-> Ok(NoneV)]

\* tile.name: alias.__get__ and dfield.__get__ read the attribute they
\* store into
Tile_getattr(attrs, name) ==
    IF Tile_target(name) \in DOMAIN attrs THEN Ok(attrs[Tile_target(name)])
    ELSE Raise("AttributeError")

\* del tile.name: Tile defines no __delattr__, the descriptors delete the
\* attribute they store into
Tile_delattr(attrs, name) ==
    IF Tile_target(name) \in DOMAIN attrs
    THEN [attrs |-> Remove(attrs, Tile_target(name)), result |-> Ok(NoneV)]
    ELSE [attrs |-> attrs, result |-> Raise("AttributeError")]

\* The assignments of a sequence made one after the other until one raises
RECURSIVE Tile_assign_all(_, _, _)
Tile_assign_all(attrs, todo, i) ==
    IF i > Len(todo) THEN [attrs |-> attrs, result |-> Ok(NoneV)]
    ELSE LET r == Tile_setattr(attrs, todo[i][1], todo[i][2])
         IN  IF IsError(r.result) THEN r ELSE Tile_assign_all(r.attrs, todo, i + 1)

\* Tile(...): Tile.__init__(tileset, id_, properties) on a new object
Tile_new(tileset, id_, properties) ==
    IF id_ = NoneV
    THEN IF tileset = NoneV THEN [attrs |-> << >>, result |-> Ok(NoneV)]
         ELSE [attrs |-> << >>, result |-> Raise("ValueError")]
    ELSE Tile_assign_all(<< >>, << <<"tileset", tileset>>, <<"properties", properties>>,
                                  <<"id", id_>>, <<"frozen", NoneV>> >>, 1)

\* Data._load for a <tile>: obj = cls(); obj.parent = parent; then the
\* generated _load_xml: id, properties, and frozen last
Tile_load(parent, id_, properties) ==
    Tile_assign_all(<< >>, << <<"parent", parent>>, <<"id", id_>>,
                              <<"properties", properties>>, <<"frozen", NoneV>> >>, 1)

TileObjIdle ==
    /\ tile_obj = [made |-> FALSE, attrs |-> << >>]
    /\ tile_op = [name |-> "none"]
    /\ tile_result = NoneV
    /\ tile_marked = FALSE

TileObjInit == TileObjIdle

\* What an operation leaves: the attributes, its outcome, and the note that
\* the marker has been set
TileObjAfter(r, op) ==
    /\ tile_obj' = [made |-> TRUE, attrs |-> r.attrs]
    /\ tile_op' = op
    /\ tile_result' = r.result
    /\ tile_marked' = (tile_marked \/ Tile_hasattr_frozen(r.attrs))
    /\ UNCHANGED <<tileVars, gridVars, bagVars, loadVars, fieldVars, polyVars, registryVars>>

\* Tile(), Tile(tileset, id) or Tile(tileset, id, properties)
ConstructTile ==
    /\ ~tile_obj.made
    /\ \E tileset \in {NoneV, ObjV(1)}, properties \in {NoneV, ObjV(1)},
          id_ \in {NoneV} \cup { IntV(i) : i \in 0..MaxTileId } :
          LET r == Tile_new(tileset, id_, properties)
          IN  /\ ~IsError(r.result)
              /\ TileObjAfter(r, [name |-> "init"])

\* The Tile the loader builds for a <tile> node of a tileset
LoadTile ==
    /\ ~tile_obj.made
    /\ \E properties \in {NoneV, ObjV(1)}, i \in 0..MaxTileId :
          TileObjAfter(Tile_load(ObjV(1), IntV(i), properties), [name |-> "load"])

\* tile.name = value
SetTileAttr ==
    /\ tile_obj.made
    /\ \E name \in TileAttrNames, value \in TileAttrValues :
          TileObjAfter(Tile_setattr(tile_obj.attrs, name, value),
                       [name |-> "setattr", attr |-> name, value |-> value])

\* del tile.name
DelTileAttr ==
    /\ tile_obj.made
    /\ \E name \in TileAttrNames :
          TileObjAfter(Tile_delattr(tile_obj.attrs, name),
                       [name |-> "delattr", attr |-> name])

\* tile.name
ReadTileAttr ==
    /\ tile_obj.made
    /\ \E name \in TileAttrNames :
          TileObjAfter([attrs |-> tile_obj.attrs, result |-> Tile_getattr(tile_obj.attrs, name)],
                       [name |-> "getattr", attr |-> name])

TileObjNext ==
    \/ ConstructTile
    \/ LoadTile
    \/ SetTileAttr
    \/ DelTileAttr
    \/ ReadTileAttr

\* C17 as stated: once the frozen marker has been set on a Tile, every
\* attribute assignment made on it afterwards, to a field or to the tileset
\* alias, raises and leaves the Tile's attributes as they were.
C17_TileImmutable ==
    [][ (tile_marked /\ tile_op'.name = "setattr") =>
            IsError(tile_result') /\ tile_obj' = tile_obj ]_vars

\* C23: on a Tile the alias tileset and the attribute parent it forwards to
\* share one value at all times: reading either gives what reading the
\* other gives (an AttributeError while neither is set), an assignment to
\* either that succeeds is what both read afterwards, and a read of the
\* alias returns the value parent had.
C23_AliasShares ==
    [][ /\ Tile_getattr(tile_obj'.attrs, "tileset") = Tile_getattr(tile_obj'.attrs, "parent")
        /\ (/\ tile_op'.name = "setattr"
            /\ tile_op'.attr \in {"tileset", "parent"}
            /\ ~IsError(tile_result')) =>
               /\ Tile_getattr(tile_obj'.attrs, "tileset") = Ok(tile_op'.value)
               /\ Tile_getattr(tile_obj'.attrs, "parent") = Ok(tile_op'.value)
        /\ (tile_op'.name = "getattr" /\ tile_op'.attr = "tileset") =>
               /\ tile_result' = Tile_getattr(tile_obj.attrs, "parent")
               /\ tile_obj'.attrs = tile_obj.attrs ]_vars

\* A Tile whose parent was set, then assigned through the alias: parent
\* holds the value assigned to tileset
C23_Witness ==
    /\ tile_op.name = "setattr"
    /\ tile_op.attr = "tileset"
    /\ tile_op.value = ObjV(1)
    /\ ~IsError(tile_result)
    /\ "parent" \in DOMAIN tile_obj.attrs
    /\ tile_obj.attrs["parent"] = ObjV(1)
    /\ "_id" \in DOMAIN tile_obj.attrs

\* C30: every load call terminates: once made, it returns a document or
\* fails with an error after finitely many steps, also when a remote
\* reference leads back to a file on the current chain (a tileset file
\* holding a tileset that refers to the same file).
C30_LoadTerminates ==
    (phase \in {"building", "post_load"}) ~> (phase \in {"returned", "failed"})

\* A load of files with a tileset referring to its own file has ended, with
\* the error the interpreter raised at its recursion limit
C30_Witness ==
    /\ phase = "failed"
    /\ result = Raise("RecursionError")
    /\ \E p \in DOMAIN files : \E i \in DOMAIN files[p].children :
          /\ files[p].children[i].tag = "tileset"
          /\ "source" \in DOMAIN files[p].children[i].attrib
          /\ RemotePath(p, files[p].children[i].attrib["source"]) = p
          /\ \E o \in DOMAIN entries : entries[o].data_path = PathV(p)

-----------------------------------------------------------------------------
(* Field extraction: one attribute dfield loaded from a raw node that has
   or lacks its value, by the load code of each encoding *)

\* The largest digit a raw node's text is drawn from
MaxRaw == 2

Digits == <<"0", "1", "2", "3", "4", "5", "6", "7", "8", "9">>

\* The texts a raw node can hold for the field
RawTexts == {"", "x"} \cup { Digits[n + 1] : n \in 0..MaxRaw }

\* A dfield declaration: the descriptor, whether its annotation is X | None,
\* and the key it is read from in a JSON object (json_rename_from, else
\* rename_from, else its name)
Decl(owner, d, union, json_src) ==
    [owner |-> owner, d |-> d, union |-> union, json_src |-> json_src]

\* Attribute dfields of tmx.py
FieldDecls ==
    { Decl("Map", Req("width", "int"), FALSE, "width"),
      Decl("Property", Req("name", "str"), FALSE, "name"),
      Decl("Image", Req("width", "int"), TRUE, "imagewidth"),
      Decl("Image", Attr("source", "str", "source", TRUE, NoneV), TRUE, "image"),
      Decl("Text", Opt("color", "str", StrV("#ffffff")), FALSE, "color"),
      Decl("TileLayer", Opt("offsetx", "float", FloatV(0)), FALSE, "offsetx"),
      Decl("Object", Opt("type", "str", NoneV), FALSE, "type"),
      Decl("Object", Opt("gid", "int", NoneV), TRUE, "gid") }

\* element.attrib, or the JSON object, of a raw node holding the value
\* under the key src or lacking it
RawNode(raw, src) == IF raw.present THEN (src :> raw.text) ELSE << >>

\* The attribute branch of dfield.generate_xml_load_code: what the emitted
\* statement sets the field to, or raises
generate_xml_load_code(decl, attrib) ==
    LET d == decl.d
    IN  IF d.optional
        THEN IF d.src \in DOMAIN attrib THEN coerce(d.type, attrib[d.src])
             ELSE Ok(d.default)
        ELSE IF d.src \in DOMAIN attrib THEN coerce(d.type, attrib[d.src])
             ELSE RaiseWith("KeyError", <<d.src>>)

\* dfield.generate_json_load_code for a field that is no Data object: the
\* emitted statement is guarded when the flag is set or the annotation is
\* a union; typename(value) converts as coerce does
generate_json_load_code(decl, element) ==
    LET d == decl.d
        optional == decl.union
    IN  IF d.optional \/ optional
        THEN IF decl.json_src \in DOMAIN element
             THEN coerce(d.type, element[decl.json_src])
             ELSE Ok(d.default)
        ELSE IF decl.json_src \in DOMAIN element
             THEN coerce(d.type, element[decl.json_src])
             ELSE RaiseWith("KeyError", <<decl.json_src>>)

\* The third component of base.py's dfield.type_info: a union annotation
\* or a default other than None
type_info(decl) == decl.union \/ decl.d.default # NoneV

\* The attribute branch of base.py's dfield.load_xml_element
load_xml_element(decl, attrib) ==
    LET d == decl.d
    IN  IF d.src \in DOMAIN attrib THEN coerce(d.type, attrib[d.src])
        ELSE IF type_info(decl) THEN Ok(d.default)
        ELSE RaiseWith("ValueError", <<"required attribute", d.name, "not found">>)

\* base.py's dfield.load_json_element for a field that is no Data object
load_json_element(decl, element) ==
    LET d == decl.d
    IN  IF decl.json_src \in DOMAIN element THEN coerce(d.type, element[decl.json_src])
        ELSE IF type_info(decl) THEN Ok(d.default)
        ELSE RaiseWith("ValueError", <<"required attribute", d.name, "not found">>)

FieldIdle ==
    /\ fld = NoneV
    /\ fld_raw = NoneV
    /\ fld_enc = ""
    /\ fld_result = NoneV

FieldInit ==
    /\ fld \in FieldDecls
    /\ fld_raw \in {[present |-> FALSE, text |-> ""]}
                   \cup { [present |-> TRUE, text |-> t] : t \in RawTexts }
    /\ fld_enc = ""
    /\ fld_result = NoneV

FieldAfter(enc, r) ==
    /\ fld_enc' = enc
    /\ fld_result' = r
    /\ UNCHANGED <<fld, fld_raw>>
    /\ UNCHANGED <<tileVars, gridVars, bagVars, loadVars, tileObjVars, polyVars, registryVars>>

\* The field's statement of the generated _load_xml runs on an XML node
LoadFieldXml ==
    /\ fld_enc = ""
    /\ FieldAfter("xml", generate_xml_load_code(fld, RawNode(fld_raw, fld.d.src)))

\* The field's statement of the generated _load_json runs on a JSON object
LoadFieldJson ==
    /\ fld_enc = ""
    /\ FieldAfter("json", generate_json_load_code(fld, RawNode(fld_raw, fld.json_src)))

\* base.py's dfield takes no optional flag: only declarations without it
\* can be made there
LoadFieldBaseXml ==
    /\ fld_enc = ""
    /\ ~fld.d.optional
    /\ FieldAfter("base_xml", load_xml_element(fld, RawNode(fld_raw, fld.d.src)))

LoadFieldBaseJson ==
    /\ fld_enc = ""
    /\ ~fld.d.optional
    /\ FieldAfter("base_json", load_json_element(fld, RawNode(fld_raw, fld.json_src)))

FieldNext == LoadFieldXml \/ LoadFieldJson \/ LoadFieldBaseXml \/ LoadFieldBaseJson

\* The field was missing from the raw node and its load code has run
MissingLoaded == fld_enc # "" /\ ~fld_raw.present

\* C27: a field is optional exactly when it carries the optional flag or a
\* declared default: when its value is missing from the raw node, such a
\* field is set to its default without a failure and any other field makes
\* the load fail, in the XML and in the JSON encoding alike.
C27_OptionalFlagOrDefault ==
    MissingLoaded =>
        ((fld.d.optional \/ fld.d.default # NoneV) <=> fld_result = Ok(fld.d.default))

-----------------------------------------------------------------------------
(* JSON polymorphic build: a field annotated with an untagged base class
   (LayerBase) built from a JSON object by base.py's load_json_element *)

\* How many kinds of JSON object the sources are drawn from
MaxKinds == 2

JsonKinds == <<"tilelayer", "imagelayer", "objectgroup", "group", "other">>

\* The JSON objects to build: their "type" member tells them apart
PolySources == { [type |-> JsonKinds[k]] : k \in 1..MaxKinds }

\* cls.TAG
TagOf(cls) == CHOOSE tag \in DOMAIN TAG_PARSERS : TAG_PARSERS[tag] = cls

\* tuple(collect_subclasses()): the classes come out of a set, in whatever
\* order its iteration yields
SubclassOrders(cls) ==
    LET S == collect_subclasses(cls)
    IN  { seq \in [1..Cardinality(S) -> S] : \A c \in S : \E i \in DOMAIN seq : seq[i] = c }

\* i.JSON_MATCH(src), for json_match predicates that look at the type member
JSON_MATCH(match, cls, src) == src.type \in match[cls]

\* next(loader.TAG_PARSERS[i.TAG] for i in annotation if i.JSON_MATCH(src)):
\* the first class of the tuple whose predicate accepts the object, and
\* StopIteration when none does
load_json_element_polymorphic(parsers, annotation, match, src) ==
    LET hits == { i \in DOMAIN annotation : JSON_MATCH(match, annotation[i], src) }
    IN  IF hits = {} THEN Raise("StopIteration")
        ELSE LET first == CHOOSE i \in hits : \A j \in hits : i <= j
             IN  Ok(StrV(parsers[TagOf(annotation[first])]))

PolyIdle ==
    /\ poly_match = NoneV
    /\ poly_order = << >>
    /\ poly_src = NoneV
    /\ poly_result = NoneV

PolyInit ==
    /\ poly_match \in [collect_subclasses("LayerBase") -> SUBSET { s.type : s \in PolySources }]
    /\ poly_order \in SubclassOrders("LayerBase")
    /\ poly_src \in PolySources
    /\ poly_result = NoneV

\* The field's value is built from the JSON object
BuildPolymorphic ==
    /\ poly_result = NoneV
    /\ poly_result' = load_json_element_polymorphic(TAG_PARSERS, poly_order, poly_match, poly_src)
    /\ UNCHANGED <<poly_match, poly_order, poly_src>>
    /\ UNCHANGED <<tileVars, gridVars, bagVars, loadVars, tileObjVars, fieldVars, registryVars>>

PolyNext == BuildPolymorphic

\* The subtypes whose match predicate accepts the object being built
PolyMatches == { c \in DOMAIN poly_match : JSON_MATCH(poly_match, c, poly_src) }

\* C28: a JSON polymorphic build fails when more than one subtype's match
\* predicate accepts the object and when none does; a subtype is chosen
\* only when exactly one matches, and then it is that one.
C28_ExactlyOneMatch ==
    poly_result # NoneV =>
        IF Cardinality(PolyMatches) = 1
        THEN \A c \in PolyMatches : poly_result = Ok(StrV(TAG_PARSERS[TagOf(c)]))
        ELSE poly_result.kind # "ok"

-----------------------------------------------------------------------------
(* Loader registries: the TAG_PARSERS dict of each loader class.  The dicts
   are objects of their own; a class attribute holds a reference to one. *)

\* How many loader classes are derived
MaxLoaders == 2

LoaderNames == <<"PygameLoader", "Loader2", "Loader3", "Loader4">>

\* The classes handed to register
RegisteredClasses == {"PygameTile", "PygameMap"}

\* cls2.TAG: a subclass inherits the TAG of its base
InheritedTag(cls) == IF cls \in DOMAIN PygameBase THEN TagOf(PygameBase[cls]) ELSE TagOf(cls)

\* {}
EmptyDict == [tag \in {} |-> ""]

\* A derived class that keeps referring to the dict of its base.
init_subclass_shared(dicts, parent, use_defaults) ==
    IF use_defaults THEN [dicts |-> dicts, ref |-> parent]
    ELSE [dicts |-> Append(dicts, EmptyDict), ref |-> Len(dicts) + 1]

\* BaseLoader.__init_subclass__: cls.TAG_PARSERS is looked up on the base
\* (parent refers to its dict) and the new class gets a dict of its own, a
\* copy of that one or an empty one
init_subclass(dicts, parent, use_defaults) ==
    IF use_defaults THEN [dicts |-> Append(dicts, dicts[parent]), ref |-> Len(dicts) + 1]
    ELSE [dicts |-> Append(dicts, EmptyDict), ref |-> Len(dicts) + 1]

\* BaseLoader.register: cls.TAG_PARSERS[cls2.TAG] = cls2, on the dict the
\* class refers to
register(dicts, ref, cls2) ==
    [dicts EXCEPT ![ref] = (InheritedTag(cls2) :> cls2) @@ dicts[ref]]

RegistryIdle ==
    /\ registries = << >>
    /\ loaders = NoneV
    /\ loader_op = NoneV

\* tmx.py has been imported: BaseLoader holds the classes of tmx.py
RegistryInit ==
    /\ registries = <<TAG_PARSERS>>
    /\ loaders = ("BaseLoader" :> [base |-> "", TAG_PARSERS |-> 1])
    /\ loader_op = [name |-> "import"]

\* class <name>(<base>, use_defaults=...)
DeriveLoader ==
    /\ Cardinality(DOMAIN loaders) <= MaxLoaders
    /\ \E base \in DOMAIN loaders, use_defaults \in BOOLEAN :
          LET name == LoaderNames[Cardinality(DOMAIN loaders)]
              r == init_subclass(registries, loaders[base].TAG_PARSERS, use_defaults)
          IN  /\ registries' = r.dicts
              /\ loaders' = (name :> [base |-> base, TAG_PARSERS |-> r.ref]) @@ loaders
              /\ loader_op' = [name |-> "class", loader |-> name, base |-> base,
                               use_defaults |-> use_defaults]
    /\ UNCHANGED <<tileVars, gridVars, bagVars, loadVars, tileObjVars, fieldVars, polyVars>>

\* <loader>.register(cls2)
RegisterClass ==
    /\ \E loader \in DOMAIN loaders, cls2 \in RegisteredClasses :
          /\ registries' = register(registries, loaders[loader].TAG_PARSERS, cls2)
          /\ loader_op' = [name |-> "register", loader |-> loader, cls |-> cls2]
    /\ UNCHANGED loaders
    /\ UNCHANGED <<tileVars, gridVars, bagVars, loadVars, tileObjVars, fieldVars, polyVars>>

RegistryNext == DeriveLoader \/ RegisterClass

\* <loader>.TAG_PARSERS
ParsersIn(dicts, classes, loader) == dicts[classes[loader].TAG_PARSERS]
ParsersOf(loader) == ParsersIn(registries, loaders, loader)
ParsersAfter(loader) == ParsersIn(registries', loaders', loader)

\* C29: the registries of the loader classes are isolated: a register call
\* on a derived loader leaves the registry of every other loader (its
\* parent, its siblings) as it was; a loader derived with defaults starts
\* with a copy of its parent's registry as of its creation, one derived
\* without defaults starts empty, and creating it changes no other registry.
C29_RegistriesIsolated ==
    [][ /\ (loader_op'.name = "register" /\ loader_op'.loader # "BaseLoader") =>
              \A l \in DOMAIN loaders \ {loader_op'.loader} : ParsersAfter(l) = ParsersOf(l)
        /\ loader_op'.name = "class" =>
              /\ ParsersAfter(loader_op'.loader) =
                    IF loader_op'.use_defaults THEN ParsersOf(loader_op'.base) ELSE EmptyDict
              /\ \A l \in DOMAIN loaders : ParsersAfter(l) = ParsersOf(l) ]_vars

\* A loader derived with defaults has registered a class of its own, and its
\* registry now differs from its parent's
C29_Witness ==
    /\ loader_op.name = "register"
    /\ loader_op.loader # "BaseLoader"
    /\ loader_op.cls \in DOMAIN PygameBase
    /\ ParsersOf(loader_op.loader) # ParsersOf(loaders[loader_op.loader].base)
    /\ ParsersOf(loaders[loader_op.loader].base)[InheritedTag(loader_op.cls)] \notin DOMAIN PygameBase

-----------------------------------------------------------------------------
(* Specifications *)

\* Each specification runs one component; every action leaves the other
\* components as constructed
InitTiles == TileInit /\ GridIdle /\ BagIdle /\ LoadIdle /\ TileObjIdle /\ FieldIdle /\ PolyIdle /\ RegistryIdle

SpecTiles == InitTiles /\ [][TileNext]_vars

InitGrid == TileIdle /\ GridInit /\ BagIdle /\ LoadIdle /\ TileObjIdle /\ FieldIdle /\ PolyIdle /\ RegistryIdle

SpecGrid == InitGrid /\ [][GridNext]_vars

InitBag == TileIdle /\ GridIdle /\ BagInit /\ LoadIdle /\ TileObjIdle /\ FieldIdle /\ PolyIdle /\ RegistryIdle

SpecBag == InitBag /\ [][BagNext]_vars

InitLoad == TileIdle /\ GridIdle /\ BagIdle /\ LoadInit /\ TileObjIdle /\ FieldIdle /\ PolyIdle /\ RegistryIdle

SpecLoad == InitLoad /\ [][LoadNext]_vars

InitPygame == TileIdle /\ GridIdle /\ BagIdle /\ PygameInit /\ TileObjIdle /\ FieldIdle /\ PolyIdle /\ RegistryIdle

SpecPygame == InitPygame /\ [][LoadNext]_vars

InitCyclic == TileIdle /\ GridIdle /\ BagIdle /\ CyclicInit /\ TileObjIdle /\ FieldIdle /\ PolyIdle
              /\ RegistryIdle

\* load is an ordinary synchronous call: once made, the interpreter keeps
\* executing it, so a step of the call in progress that can be taken is taken
SpecCyclic == InitCyclic /\ [][LoadNext]_vars /\ WF_vars(LoadStep)

InitTileObj == TileIdle /\ GridIdle /\ BagIdle /\ LoadIdle /\ TileObjInit /\ FieldIdle /\ PolyIdle /\ RegistryIdle

SpecTileObj == InitTileObj /\ [][TileObjNext]_vars

InitField == TileIdle /\ GridIdle /\ BagIdle /\ LoadIdle /\ TileObjIdle /\ FieldInit /\ PolyIdle
             /\ RegistryIdle

SpecField == InitField /\ [][FieldNext]_vars

InitPoly == TileIdle /\ GridIdle /\ BagIdle /\ LoadIdle /\ TileObjIdle /\ FieldIdle /\ PolyInit
            /\ RegistryIdle

SpecPoly == InitPoly /\ [][PolyNext]_vars

InitRegistry == TileIdle /\ GridIdle /\ BagIdle /\ LoadIdle /\ TileObjIdle /\ FieldIdle /\ PolyIdle
                /\ RegistryInit

SpecRegistry == InitRegistry /\ [][RegistryNext]_vars

====
